---- MODULE Spec2Model ----
(***************************************************************************)
(* A model of thorium, a single-pass bytecode compiler and stack VM for a  *)
(* small Lox-like language (src/src/{scanner,compiler,chunk,value,vm}.rs). *)
(*                                                                         *)
(* A run starts at one of the two public entry points:                     *)
(*   entry = "interpret"  : vm::interpret(source): compile, then execute;  *)
(*   entry = "vm"         : Vm::init(&chunk) followed by Vm::interpret on  *)
(*                          a hand-built chunk (as in the commented block  *)
(*                          of main.rs).                                   *)
(*                                                                         *)
(* The scanner and the Pratt parser are pure recursive operators over a    *)
(* parser record; one action compiles one declaration (one iteration of    *)
(* the loop in compile).  The VM executes one instruction per action.      *)
(*                                                                         *)
(* Conventions.                                                            *)
(*  - A source text is a sequence of bytes; a byte is written as the       *)
(*    one-character string of its ASCII character, "NUL" for the zero      *)
(*    byte and "xC3", "xA9" for the two bytes of the UTF-8 encoding of     *)
(*    U+00E9.  A lexeme is a subsequence of the source.                    *)
(*  - Indices are 0-based as in the code; Sequences are 1-based, so the    *)
(*    byte at code index i is s[i + 1].                                    *)
(*  - A Rust panic (index or slice out of range, arithmetic underflow) is  *)
(*    the outcome "Abort"; it is the same in debug and release builds for  *)
(*    every panic modelled here.                                           *)
(*  - The build modelled is the release build: the cfg!(debug_assertions)  *)
(*    traces are off.                                                      *)
(*  - An f32 is modelled as the exact rational num/den in lowest terms     *)
(*    (den > 0), with den = 0 for the IEEE specials: 1/0 = inf,            *)
(*    -1/0 = -inf, 0/0 = NaN.  Rounding and the sign of zero are not       *)
(*    modelled.                                                            *)
(***************************************************************************)
EXTENDS Integers, Sequences, FiniteSets, TLC

VARIABLES
    entry,    \* "interpret", "vm", "repl" or "chunk": the entry point of this run
    source,   \* the argument of vm::interpret or of compiler::compile
    pc,       \* "start", "compile", "run", "done"; in repl "prompt", "exited";
              \* "calls" while a chunk is written from outside
    parser,   \* compiler::Parser
    chunk,    \* the chunk the Vm borrows
    ip,       \* Vm.ip
    stack,    \* Vm.stack.values
    globals,  \* Vm.globals, a function from the bound names to values
    result,   \* "none", "Ok", "CompileError", "RuntimeError", "Abort"
    out,      \* the lines written to standard output
    err,      \* the lines the Vm wrote to standard error
    last,     \* history: the instruction executed last and the state before it
    written,  \* history: name -> value of the last completed Define/SetGlobal
    earlier,  \* history: the call of vm::interpret that returned before this one
    writes    \* history: the (byte, line) of every Chunk::write on `chunk`

vars == <<entry, source, pc, parser, chunk, ip, stack, globals, result, out,
          err, last, written, earlier, writes>>

(***************************************************************************)
(* Bounds of the model.                                                    *)
(***************************************************************************)
MaxSrcLen == 3
MaxStmts == 2
MaxCodeLen == 3

\* The longest line submitted at the prompt
MaxLineLen == 2

\* The most calls of Chunk::write and Chunk::add_constant on one chunk
MaxCalls == 3

(***************************************************************************)
(* value.rs: Value                                                         *)
(***************************************************************************)
Value(t, b, num, den, s) == [t |-> t, b |-> b, num |-> num, den |-> den, s |-> s]

Boolean(b) == Value("Boolean", b, 0, 1, <<>>)

Nil == Value("Nil", FALSE, 0, 1, <<>>)

Number(num, den) == Value("Number", FALSE, num, den, <<>>)

DynamicString(s) == Value("DynamicString", FALSE, 0, 1, s)

\* ---- f32 arithmetic on the rational representation ----
Abs(n) == IF n < 0 THEN -n ELSE n

RECURSIVE Gcd(_, _)
Gcd(a, b) == IF b = 0 THEN a ELSE Gcd(b, a % b)

\* The f32 that is the quotient num/den; x/0 is an infinity or NaN.
F32(num, den) ==
    IF den = 0
    THEN Number(IF num > 0 THEN 1 ELSE IF num < 0 THEN -1 ELSE 0, 0)
    ELSE LET sg == IF den < 0 THEN -1 ELSE 1
             g == Gcd(Abs(num), Abs(den))
         IN  Number((sg * num) \div g, (sg * den) \div g)

NaN == Number(0, 0)

IsNaN(v) == v.den = 0 /\ v.num = 0

IsInf(v) == v.den = 0 /\ v.num # 0

F32Neg(a) == Number(-a.num, a.den)

F32Add(a, b) ==
    IF IsInf(a) /\ IsInf(b)
    THEN (IF a.num = b.num THEN a ELSE NaN)
    ELSE F32(a.num * b.den + b.num * a.den, a.den * b.den)

F32Sub(a, b) == F32Add(a, F32Neg(b))

F32Mul(a, b) == F32(a.num * b.num, a.den * b.den)

F32Div(a, b) ==
    LET recip == IF b.den = 0
                 THEN (IF IsNaN(b) THEN NaN ELSE Number(0, 1))
                 ELSE F32(b.den, b.num)
    IN  F32Mul(a, recip)

F32Eq(a, b) == ~IsNaN(a) /\ ~IsNaN(b) /\ a.num = b.num /\ a.den = b.den

F32Lt(a, b) ==
    /\ ~IsNaN(a)
    /\ ~IsNaN(b)
    /\ IF a.den = 0 /\ b.den = 0
       THEN a.num < b.num
       ELSE a.num * b.den < b.num * a.den

\* str::replace(pat, ""): every non-overlapping occurrence of pat, left to
\* right, is removed; an empty pattern leaves the string as it is.
RECURSIVE RemoveAll(_, _)
RemoveAll(s, pat) ==
    IF Len(pat) = 0 \/ Len(s) < Len(pat) THEN s
    ELSE IF SubSeq(s, 1, Len(pat)) = pat
         THEN RemoveAll(SubSeq(s, Len(pat) + 1, Len(s)), pat)
         ELSE <<Head(s)>> \o RemoveAll(Tail(s), pat)

Quote == "\""

\* impl PartialEq for Value
ValueEq(a, b) ==
    CASE a.t = "Boolean" /\ b.t = "Boolean" -> a.b = b.b
      [] a.t = "Nil" /\ b.t = "Nil" -> TRUE
      [] a.t = "Number" /\ b.t = "Number" -> F32Eq(a, b)
      [] a.t = "DynamicString" /\ b.t = "DynamicString" -> a.s = b.s
      [] OTHER -> FALSE

\* Ordering of two integers as an Option<Ordering>
IntCmp(x, y) == IF x < y THEN "Less" ELSE IF x > y THEN "Greater" ELSE "Equal"

\* impl PartialOrd for Value: "None" when the two are not comparable
PartialCmp(a, b) ==
    CASE a.t = "Boolean" /\ b.t = "Boolean" ->
            IntCmp(IF a.b THEN 1 ELSE 0, IF b.b THEN 1 ELSE 0)
      [] a.t = "Nil" /\ b.t = "Nil" -> "Equal"
      [] a.t = "Number" /\ b.t = "Number" ->
            IF IsNaN(a) \/ IsNaN(b) THEN "None"
            ELSE IF F32Lt(a, b) THEN "Less"
            ELSE IF F32Lt(b, a) THEN "Greater"
            ELSE "Equal"
      [] a.t = "DynamicString" /\ b.t = "DynamicString" ->
            IntCmp(Len(a.s), Len(b.s))
      [] OTHER -> "None"

ValueGt(a, b) == PartialCmp(a, b) = "Greater"

ValueLt(a, b) == PartialCmp(a, b) = "Less"

\* impl ops::Add<Value> for Value
ValueAdd(a, b) ==
    CASE a.t = "Boolean" /\ b.t = "Boolean" -> Boolean(a.b \/ b.b)
      [] a.t = "Number" /\ b.t = "Number" -> F32Add(a, b)
      [] a.t = "DynamicString" /\ b.t = "DynamicString" ->
            DynamicString(RemoveAll(a.s \o b.s, <<Quote, Quote>>))
      [] OTHER -> Nil

\* impl ops::Sub<Value> for Value
ValueSub(a, b) ==
    CASE a.t = "Number" /\ b.t = "Number" -> F32Sub(a, b)
      [] a.t = "DynamicString" /\ b.t = "DynamicString" ->
            DynamicString(RemoveAll(a.s, b.s))
      [] OTHER -> Nil

\* impl ops::Mul<Value> for Value
ValueMul(a, b) ==
    CASE a.t = "Boolean" /\ b.t = "Boolean" -> Boolean(a.b /\ b.b)
      [] a.t = "Number" /\ b.t = "Number" -> F32Mul(a, b)
      [] OTHER -> Nil

\* impl ops::Div for Value
ValueDiv(a, b) ==
    CASE a.t = "Number" /\ b.t = "Number" -> F32Div(a, b)
      [] OTHER -> Nil

\* impl fmt::Display for Value.  A number is written exactly when it is an
\* integer, a special, or a decimal fraction with one or two places; for any
\* other f32 the digits depend on the rounding and are left as "f32".
RECURSIVE NatDigits(_)
NatDigits(n) ==
    LET d == <<"0", "1", "2", "3", "4", "5", "6", "7", "8", "9">>
    IN  IF n < 10 THEN <<d[n + 1]>> ELSE NatDigits(n \div 10) \o <<d[(n % 10) + 1]>>

F32Display(v) ==
    LET sign == IF v.num < 0 THEN <<"-">> ELSE <<>>
        n == Abs(v.num)
    IN  CASE IsNaN(v) -> <<"N", "a", "N">>
          [] IsInf(v) -> sign \o <<"i", "n", "f">>
          [] v.den = 1 -> sign \o NatDigits(n)
          [] v.den \in {2, 5, 10} ->
                sign \o NatDigits(n \div v.den) \o <<".">>
                     \o NatDigits(((n % v.den) * 10) \div v.den)
          [] v.den \in {4, 20, 25, 50, 100} ->
                sign \o NatDigits(n \div v.den) \o <<".">>
                     \o NatDigits(((n % v.den) * 10) \div v.den)
                     \o NatDigits((((n % v.den) * 100) \div v.den) % 10)
          [] OTHER -> <<"f32">>

Display(v) ==
    CASE v.t = "Boolean" ->
            IF v.b THEN <<"t", "r", "u", "e">> ELSE <<"f", "a", "l", "s", "e">>
      [] v.t = "Nil" -> <<"n", "i", "l">>
      [] v.t = "Number" -> F32Display(v)
      [] v.t = "DynamicString" -> v.s

(***************************************************************************)
(* chunk.rs: OpCode, Chunk                                                 *)
(***************************************************************************)
\* enum OpCode, #[repr(u8)]: the discriminant of a variant is its position.
OpCodeDeclared ==
    <<"Return", "Constant", "Negate", "Add", "Subtract", "Divide", "Multiply",
      "True", "False", "Nil", "Not", "Equal", "Greater", "Less">>

\* The five variants vm.rs and compiler.rs use but the enum as given does not
\* declare; they are taken to follow the declared ones, in the order of the
\* dispatch in Vm::interpret.  No property below depends on their numbers.
OpCodeUndeclared == <<"Print", "Pop", "DefineGlobal", "GetGlobal", "SetGlobal">>

OpCodes == OpCodeDeclared \o OpCodeUndeclared

\* OpCode::X.into()
OpByte(name) == (CHOOSE i \in 1..Len(OpCodes) : OpCodes[i] = name) - 1

\* OpCode::try_from(byte): "Err" for a byte that is no discriminant
TryFrom(byte) == IF byte < Len(OpCodes) THEN OpCodes[byte + 1] ELSE "Err"

\* Chunk::init
ChunkInit == [code |-> <<>>, constants |-> <<>>, lines |-> <<>>]

\* Chunk::write
ChunkWrite(c, byte, line) ==
    [c EXCEPT !.code = Append(@, byte), !.lines = Append(@, line)]

\* add_constant as it would be if it pushed a line as well: a variant
\* against which the lockstep of code and lines is tried
AddConstantWithLine(c, value) ==
    [chunk |-> [c EXCEPT !.constants = Append(@, value), !.lines = Append(@, 0)],
     index |-> Len(c.constants)]

\* Chunk::add_constant: the chunk after the call and the index returned
AddConstant(c, value) ==
    [chunk |-> [c EXCEPT !.constants = Append(@, value)],
     index |-> Len(c.constants)]

(***************************************************************************)
(* vm.rs: Vm                                                               *)
(***************************************************************************)
EmptyMap == [x \in {} |-> Nil]

\* An insert that keeps an existing entry (entry(k).or_insert(v)): a variant
\* against which the properties of the globals are tried
InsertIfAbsent(m, k, v) ==
    [x \in DOMAIN m \cup {k} |-> IF x \in DOMAIN m THEN m[x] ELSE v]

\* HashMap::insert
HashMapInsert(m, k, v) == [x \in DOMAIN m \cup {k} |-> IF x = k THEN v ELSE m[x]]

\* The instruction decoded by read_instruction at the current ip
Exec(op) ==
    /\ pc = "run"
    /\ ip < Len(chunk.code)
    /\ TryFrom(chunk.code[ip + 1]) = op

\* read_byte / read_constant with the operand at code index i: the index into
\* code or into constants.values may be out of range, which panics.
ReadConstantPanics(i) ==
    \/ i >= Len(chunk.code)
    \/ chunk.code[i + 1] >= Len(chunk.constants)

ReadConstant(i) == chunk.constants[chunk.code[i + 1] + 1]

\* ValueArray::peek: len - 1 - distance underflows (a panic in a debug build,
\* a wrapped index that is out of range in a release build).
PeekPanics(distance) == Len(stack) - 1 - distance < 0

Peek(distance) == stack[Len(stack) - distance]

\* ValueArray::pop applied to st: the value, if any, and the stack left
Pop(st) ==
    IF Len(st) = 0
    THEN [some |-> FALSE, v |-> Nil, stack |-> st]
    ELSE [some |-> TRUE, v |-> st[Len(st)], stack |-> SubSeq(st, 1, Len(st) - 1)]

\* The two pops of equal_op, compare_op and binary_op: b first, then a
PopTwo ==
    LET pb == Pop(stack)
        pa == Pop(pb.stack)
    IN  [some |-> pa.some /\ pb.some, a |-> pa.v, b |-> pb.v, stack |-> pa.stack]

\* Vm::equal_op: Ok(value) or Err, and the stack left by the pops
EqualOp ==
    LET p == PopTwo
    IN  IF p.some
        THEN [ok |-> TRUE, v |-> Boolean(ValueEq(p.a, p.b)), stack |-> p.stack]
        ELSE [ok |-> FALSE, v |-> Nil, stack |-> p.stack]

\* The closure an arm passes to compare_op or binary_op, applied to a and b
Closure(op, a, b) ==
    CASE op = "Greater" -> Boolean(ValueGt(a, b))
      [] op = "Less" -> Boolean(ValueLt(a, b))
      [] op = "Add" -> ValueAdd(a, b)
      [] op = "Subtract" -> ValueSub(a, b)
      [] op = "Divide" -> ValueDiv(a, b)
      [] op = "Multiply" -> ValueMul(a, b)

\* Vm::compare_op
CompareOp(op) ==
    LET p == PopTwo
    IN  IF p.some
        THEN [ok |-> TRUE, v |-> Closure(op, p.a, p.b), stack |-> p.stack]
        ELSE [ok |-> FALSE, v |-> Nil, stack |-> p.stack]

\* Vm::binary_op: on Err it has called runtime_error, which resets the stack
BinaryOp(op) ==
    LET p == PopTwo
    IN  IF p.some
        THEN [ok |-> TRUE, v |-> Closure(op, p.a, p.b), stack |-> p.stack]
        ELSE [ok |-> FALSE, v |-> Nil, stack |-> <<>>]

\* Vm::runtime_error called after i bytes were read: the two lines written
\* to standard error (the stack reset is in the caller's Step)
RuntimeError(arg, i) == Append(err, [msg |-> arg, line |-> chunk.lines[i]])

\* One turn of the loop of Vm::interpret: the new ip and stack, and the value
\* returned if the loop is left ("none" to go on)
Step(newIp, newStack, res) ==
    /\ ip' = newIp
    /\ stack' = newStack
    /\ result' = res
    /\ pc' = IF res = "none" THEN "run" ELSE "done"
    /\ last' = [op |-> IF ip < Len(chunk.code)
                       THEN TryFrom(chunk.code[ip + 1]) ELSE "End",
                ip |-> ip, stack |-> stack, globals |-> globals]
    /\ UNCHANGED <<entry, source, parser, chunk, earlier, writes>>

\* Return as it would be if the loop went on after it: a variant against
\* which the end of the run at Return is tried
OpReturnGoesOn ==
    /\ Exec("Return")
    /\ Step(ip + 1, stack, "none")
    /\ UNCHANGED <<globals, written, out, err>>

OpReturn ==
    /\ Exec("Return")
    /\ Step(ip + 1, stack, "Ok")
    /\ UNCHANGED <<globals, written, out, err>>

OpConstant ==
    /\ Exec("Constant")
    /\ IF ReadConstantPanics(ip + 1)
       THEN Step(ip + 1, stack, "Abort")
       ELSE Step(ip + 2, Append(stack, ReadConstant(ip + 1)), "none")
    /\ UNCHANGED <<globals, written, out, err>>

\* Negate as it would be if runtime_error did not reset the stack: a variant
\* against which the properties of Negate are tried
OpNegateKeepsStack ==
    /\ Exec("Negate")
    /\ LET p == Pop(stack)
       IN  IF p.some
           THEN IF p.v.t = "Number"
                THEN /\ Step(ip + 1, Append(p.stack, F32Neg(p.v)), "none")
                     /\ UNCHANGED <<out, err>>
                ELSE /\ Step(ip + 1, p.stack, "RuntimeError")
                     /\ err' = RuntimeError("Operand must be a number", ip + 1)
                     /\ out' = out
           ELSE /\ Step(ip + 1, p.stack, "RuntimeError")
                /\ out' = Append(out, <<"Stack Underflow">>)
                /\ err' = err
    /\ UNCHANGED <<globals, written>>

OpNegate ==
    /\ Exec("Negate")
    /\ LET p == Pop(stack)
       IN  IF p.some
           THEN IF p.v.t = "Number"
                THEN /\ Step(ip + 1, Append(p.stack, F32Neg(p.v)), "none")
                     /\ UNCHANGED <<out, err>>
                ELSE /\ Step(ip + 1, <<>>, "RuntimeError")
                     /\ err' = RuntimeError("Operand must be a number", ip + 1)
                     /\ out' = out
           ELSE /\ Step(ip + 1, p.stack, "RuntimeError")
                /\ out' = Append(out, <<"Stack Underflow">>)
                /\ err' = err
    /\ UNCHANGED <<globals, written>>

\* The arms Add, Subtract, Divide, Multiply of the dispatch
Arithmetic(op) ==
    /\ LET r == BinaryOp(op)
       IN  IF r.ok
           THEN /\ Step(ip + 1, Append(r.stack, r.v), "none")
                /\ err' = err
           ELSE /\ Step(ip + 1, r.stack, "RuntimeError")
                /\ err' = RuntimeError("Operand must be a number", ip + 1)
    /\ UNCHANGED <<globals, written, out>>

OpAdd == Exec("Add") /\ Arithmetic("Add")

OpSubtract == Exec("Subtract") /\ Arithmetic("Subtract")

OpDivide == Exec("Divide") /\ Arithmetic("Divide")

OpMultiply == Exec("Multiply") /\ Arithmetic("Multiply")

OpTrue ==
    /\ Exec("True")
    /\ Step(ip + 1, Append(stack, Boolean(TRUE)), "none")
    /\ UNCHANGED <<globals, written, out, err>>

OpFalse ==
    /\ Exec("False")
    /\ Step(ip + 1, Append(stack, Boolean(FALSE)), "none")
    /\ UNCHANGED <<globals, written, out, err>>

OpNil ==
    /\ Exec("Nil")
    /\ Step(ip + 1, Append(stack, Nil), "none")
    /\ UNCHANGED <<globals, written, out, err>>

\* The arm Not as it would be if the number 0 counted as false: a variant
\* against which the truthiness of numbers is tried
OpNotZeroIsFalse ==
    /\ Exec("Not")
    /\ LET p == Pop(stack)
           r == CASE p.v.t = "Boolean" -> Boolean(~p.v.b)
                  [] p.v.t = "Nil" -> Boolean(TRUE)
                  [] p.v.t = "Number" -> Boolean(p.v.num = 0)
                  [] OTHER -> Boolean(FALSE)
       IN  IF p.some
           THEN /\ Step(ip + 1, Append(p.stack, r), "none")
                /\ err' = err
           ELSE /\ Step(ip + 1, <<>>, "RuntimeError")
                /\ err' = RuntimeError("Stack underflow", ip + 1)
    /\ UNCHANGED <<globals, written, out>>

OpNot ==
    /\ Exec("Not")
    /\ LET p == Pop(stack)
           r == CASE p.v.t = "Boolean" -> Boolean(~p.v.b)
                  [] p.v.t = "Nil" -> Boolean(TRUE)
                  [] OTHER -> Boolean(FALSE)
       IN  IF p.some
           THEN /\ Step(ip + 1, Append(p.stack, r), "none")
                /\ err' = err
           ELSE /\ Step(ip + 1, <<>>, "RuntimeError")
                /\ err' = RuntimeError("Stack underflow", ip + 1)
    /\ UNCHANGED <<globals, written, out>>

\* The arms Equal, Greater, Less: an Err of the helper is dropped by the
\* `if let Ok(value)` and the loop goes on with the next instruction.
Comparison(r) ==
    /\ IF r.ok
       THEN Step(ip + 1, Append(r.stack, r.v), "none")
       ELSE Step(ip + 1, r.stack, "none")
    /\ UNCHANGED <<globals, written, out, err>>

OpEqual == Exec("Equal") /\ Comparison(EqualOp)

OpGreater == Exec("Greater") /\ Comparison(CompareOp("Greater"))

OpLess == Exec("Less") /\ Comparison(CompareOp("Less"))

OpPrint ==
    /\ Exec("Print")
    /\ LET p == Pop(stack)
       IN  IF p.some
           THEN /\ Step(ip + 1, p.stack, "none")
                /\ out' = Append(out, Display(p.v))
           ELSE /\ Step(ip + 1, p.stack, "RuntimeError")
                /\ out' = Append(out, <<"Stack Underflow">>)
    /\ UNCHANGED <<globals, written, err>>

OpPop ==
    /\ Exec("Pop")
    /\ LET p == Pop(stack)
       IN  IF p.some
           THEN /\ Step(ip + 1, p.stack, "none")
                /\ out' = out
           ELSE /\ Step(ip + 1, p.stack, "RuntimeError")
                /\ out' = Append(out, <<"Stack Underflow">>)
    /\ UNCHANGED <<globals, written, err>>

OpDefineGlobal ==
    /\ Exec("DefineGlobal")
    /\ IF ReadConstantPanics(ip + 1)
       THEN /\ Step(ip + 1, stack, "Abort")
            /\ UNCHANGED <<globals, written, out>>
       ELSE LET name == ReadConstant(ip + 1)
            IN  IF name.t = "DynamicString"
                THEN IF PeekPanics(0)
                     THEN /\ Step(ip + 2, stack, "Abort")
                          /\ UNCHANGED <<globals, written, out>>
                     ELSE /\ globals' = HashMapInsert(globals, name.s, Peek(0))
                          /\ Step(ip + 2, Pop(stack).stack, "none")
                          /\ written' =
                               [x \in DOMAIN written \cup {name.s} |->
                                   IF x = name.s THEN stack[Len(stack)]
                                   ELSE written[x]]
                          /\ out' = out
                ELSE /\ Step(ip + 2, stack, "RuntimeError")
                     /\ out' = Append(out, <<"Variable specifier must be a string.">>)
                     /\ UNCHANGED <<globals, written>>
    /\ err' = err

OpGetGlobal ==
    /\ Exec("GetGlobal")
    /\ IF ReadConstantPanics(ip + 1)
       THEN /\ Step(ip + 1, stack, "Abort")
            /\ out' = out
       ELSE LET name == ReadConstant(ip + 1)
            IN  IF name.t = "DynamicString"
                THEN IF name.s \in DOMAIN globals
                     THEN /\ Step(ip + 2, Append(stack, globals[name.s]), "none")
                          /\ out' = out
                     ELSE /\ Step(ip + 2, stack, "RuntimeError")
                          /\ out' = Append(out, <<"Variable ">> \o name.s
                                                 \o <<" is not known.">>)
                ELSE /\ Step(ip + 2, stack, "RuntimeError")
                     /\ out' = Append(out, <<"Variable specifier must be a string.">>)
    /\ UNCHANGED <<globals, written, err>>

\* SetGlobal as it would be if it popped the assigned value, as DefineGlobal
\* does: a variant against which the properties of assignment are tried
OpSetGlobalPops ==
    /\ Exec("SetGlobal")
    /\ IF ReadConstantPanics(ip + 1)
       THEN /\ Step(ip + 1, stack, "Abort")
            /\ UNCHANGED <<globals, written, out>>
       ELSE LET name == ReadConstant(ip + 1)
            IN  IF name.t = "DynamicString"
                THEN IF PeekPanics(0)
                     THEN /\ Step(ip + 2, stack, "Abort")
                          /\ UNCHANGED <<globals, written, out>>
                     ELSE IF name.s \in DOMAIN globals
                          THEN /\ globals' = HashMapInsert(globals, name.s, Peek(0))
                               /\ Step(ip + 2, Pop(stack).stack, "none")
                               /\ written' =
                                    [x \in DOMAIN written \cup {name.s} |->
                                        IF x = name.s THEN stack[Len(stack)]
                                        ELSE written[x]]
                               /\ out' = out
                          ELSE /\ Step(ip + 2, stack, "RuntimeError")
                               /\ out' = Append(out, <<"Unknown variable.">>)
                               /\ UNCHANGED <<globals, written>>
                ELSE /\ Step(ip + 2, stack, "RuntimeError")
                     /\ out' = Append(out, <<"Variable specifier must be a string.">>)
                     /\ UNCHANGED <<globals, written>>
    /\ err' = err

OpSetGlobal ==
    /\ Exec("SetGlobal")
    /\ IF ReadConstantPanics(ip + 1)
       THEN /\ Step(ip + 1, stack, "Abort")
            /\ UNCHANGED <<globals, written, out>>
       ELSE LET name == ReadConstant(ip + 1)
            IN  IF name.t = "DynamicString"
                THEN IF PeekPanics(0)
                     THEN /\ Step(ip + 2, stack, "Abort")
                          /\ UNCHANGED <<globals, written, out>>
                     ELSE IF name.s \in DOMAIN globals
                          THEN /\ globals' = HashMapInsert(globals, name.s, Peek(0))
                               /\ Step(ip + 2, stack, "none")
                               /\ written' =
                                    [x \in DOMAIN written \cup {name.s} |->
                                        IF x = name.s THEN stack[Len(stack)]
                                        ELSE written[x]]
                               /\ out' = out
                          ELSE /\ Step(ip + 2, stack, "RuntimeError")
                               /\ out' = Append(out, <<"Unknown variable.">>)
                               /\ UNCHANGED <<globals, written>>
                ELSE /\ Step(ip + 2, stack, "RuntimeError")
                     /\ out' = Append(out, <<"Variable specifier must be a string.">>)
                     /\ UNCHANGED <<globals, written>>
    /\ err' = err

\* The turn for a byte that is no opcode as it would be if the loop went on
\* with the next byte: a variant against which the end of the run at an
\* unknown byte is tried
UnknownOpcodeSkipped ==
    /\ Exec("Err")
    /\ Step(ip + 1, stack, "none")
    /\ UNCHANGED <<globals, written, out, err>>

\* read_instruction returns Err for a byte that is no opcode
UnknownOpcode ==
    /\ Exec("Err")
    /\ Step(ip + 1, stack, "RuntimeError")
    /\ UNCHANGED <<globals, written, out, err>>

\* The loop ends with ip = code.len(): Ok(())
VmEnd ==
    /\ pc = "run"
    /\ ip >= Len(chunk.code)
    /\ Step(ip, stack, "Ok")
    /\ UNCHANGED <<globals, written, out, err>>

NextVm ==
    \/ OpReturn
    \/ OpConstant
    \/ OpNegate
    \/ OpAdd
    \/ OpSubtract
    \/ OpDivide
    \/ OpMultiply
    \/ OpTrue
    \/ OpFalse
    \/ OpNil
    \/ OpNot
    \/ OpEqual
    \/ OpGreater
    \/ OpLess
    \/ OpPrint
    \/ OpPop
    \/ OpDefineGlobal
    \/ OpGetGlobal
    \/ OpSetGlobal
    \/ UnknownOpcode
    \/ VmEnd

(***************************************************************************)
(* scanner.rs: Scanner                                                     *)
(***************************************************************************)
NUL == "NUL"

AsciiDigits == {"0", "1", "2", "3", "4", "5", "6", "7", "8", "9"}

AsciiLetters ==
    {"a", "b", "c", "d", "e", "f", "g", "h", "i", "j", "k", "l", "m", "n",
     "o", "p", "q", "r", "s", "t", "u", "v", "w", "x", "y", "z",
     "A", "B", "C", "D", "E", "F", "G", "H", "I", "J", "K", "L", "M", "N",
     "O", "P", "Q", "R", "S", "T", "U", "V", "W", "X", "Y", "Z"}

\* The scanner reads bytes and casts each to a char (`as_bytes()[i] as char`),
\* so a byte b is seen as the code point U+00b: 0xC3 as U+00C3, a letter, and
\* 0xA9 as U+00A9, the copyright sign, which is neither letter nor digit.
\* char::is_alphabetic
IsAlphabetic(c) == c \in AsciiLetters \cup {"xC3"}

\* char::is_ascii_digit
IsAsciiDigit(c) == c \in AsciiDigits

\* char::is_alphanumeric
IsAlphanumeric(c) == IsAlphabetic(c) \/ c \in AsciiDigits

\* The bytes 0x80..0xBF, which continue a UTF-8 sequence
ContinuationBytes == {"xA9"}

\* str::is_char_boundary
IsCharBoundary(src, i) ==
    \/ i = 0
    \/ i = Len(src)
    \/ i < Len(src) /\ src[i + 1] \notin ContinuationBytes

\* &src[a..b] panics unless a <= b <= len and both lie on char boundaries
SlicePanics(src, a, b) ==
    \/ a > b
    \/ b > Len(src)
    \/ ~IsCharBoundary(src, a)
    \/ ~IsCharBoundary(src, b)

Slice(src, a, b) == SubSeq(src, a + 1, b)

\* Token::make_token
Token(tt, lexeme, line) == [token_type |-> tt, lexeme |-> lexeme, line |-> line]

\* Token::make_error_token: the lexeme is the message
MakeErrorToken(error, line) == Token("Error", <<error>>, line)

\* What a scanner method returns: the scanner after it, the token, and whether
\* it panicked instead
Scanned(s, tok) == [s |-> s, tok |-> tok, abort |-> FALSE]

ScanPanic(s) == [s |-> s, tok |-> Token("Error", <<>>, 0), abort |-> TRUE]

\* Scanner::init
ScannerInit(src) == [source |-> src, start |-> 0, current |-> 0, line |-> 1]

\* Scanner::is_at_end
IsAtEnd(s) == s.current = Len(s.source)

\* Scanner::advance: the byte consumed is s.source[s.current + 1]; every call
\* site has checked that the cursor is not at the end.
ScannerAdvance(s) == [s EXCEPT !.current = @ + 1]

\* Scanner::peek
ScannerPeek(s) == IF IsAtEnd(s) THEN NUL ELSE s.source[s.current + 1]

\* Scanner::peek_next indexes current + 1, which is out of range when the
\* cursor is on the last byte
PeekNextPanics(s) == ~IsAtEnd(s) /\ s.current + 1 >= Len(s.source)

ScannerPeekNext(s) == IF IsAtEnd(s) THEN NUL ELSE s.source[s.current + 2]

\* Scanner::make_token
MakeToken(s, tt) ==
    IF SlicePanics(s.source, s.start, s.current)
    THEN ScanPanic(s)
    ELSE Scanned(s, Token(tt, Slice(s.source, s.start, s.current), s.line))

\* Scanner::match_char
MatchChar(s, expected) ==
    IF IsAtEnd(s) \/ s.source[s.current + 1] # expected
    THEN [s |-> s, matched |-> FALSE]
    ELSE [s |-> ScannerAdvance(s), matched |-> TRUE]

\* The inner loop of skip_whitespace_and_comments: to the end of the line
RECURSIVE SkipComment(_)
SkipComment(s) ==
    IF ScannerPeek(s) # "\n" /\ ~IsAtEnd(s)
    THEN SkipComment(ScannerAdvance(s))
    ELSE s

\* Scanner::skip_whitespace_and_comments
RECURSIVE SkipWhitespaceAndComments(_)
SkipWhitespaceAndComments(s) ==
    LET c == ScannerPeek(s)
    IN  CASE c \in {" ", "\r", "\t"} ->
                SkipWhitespaceAndComments(ScannerAdvance(s))
          [] c = "\n" ->
                SkipWhitespaceAndComments(
                    ScannerAdvance([s EXCEPT !.line = @ + 1]))
          [] c = "/" ->
                IF IsAtEnd(s) THEN [s |-> s, abort |-> FALSE]
                ELSE IF PeekNextPanics(s) THEN [s |-> s, abort |-> TRUE]
                ELSE IF ScannerPeekNext(s) = "/"
                     THEN SkipWhitespaceAndComments(SkipComment(s))
                     ELSE [s |-> s, abort |-> FALSE]
          [] OTHER -> [s |-> s, abort |-> FALSE]

\* The loop of parse_string: up to the closing quote or the end
RECURSIVE StringBody(_)
StringBody(s) ==
    IF ScannerPeek(s) # Quote /\ ~IsAtEnd(s)
    THEN StringBody(ScannerAdvance(
             IF ScannerPeek(s) = "\n" THEN [s EXCEPT !.line = @ + 1] ELSE s))
    ELSE s

\* Scanner::parse_string, after its loop
StringEnd(s) ==
    IF IsAtEnd(s)
    THEN Scanned(s, MakeErrorToken("Unterminated string.", s.line))
    ELSE MakeToken(ScannerAdvance(s), "String")

\* Scanner::parse_string
ParseString(s) == StringEnd(StringBody(s))

\* A loop `while self.peek().is_ascii_digit() { self.advance(); }`
RECURSIVE DigitRun(_)
DigitRun(s) ==
    IF IsAsciiDigit(ScannerPeek(s)) THEN DigitRun(ScannerAdvance(s)) ELSE s

\* Scanner::parse_number, after its first loop: the fraction, if a digit
\* follows the dot; then the second loop
NumberFraction(s) ==
    IF ScannerPeek(s) = "."
    THEN IF PeekNextPanics(s) THEN ScanPanic(s)
         ELSE IF IsAsciiDigit(ScannerPeekNext(s))
              THEN MakeToken(DigitRun(ScannerAdvance(s)), "Number")
              ELSE MakeToken(DigitRun(s), "Number")
    ELSE MakeToken(DigitRun(s), "Number")

\* Scanner::parse_number
ParseNumber(s) == NumberFraction(DigitRun(s))

\* Scanner::check_keyword: the token type, or a panic of the slice
CheckKeyword(s, start, rest, token_type) ==
    LET length == Len(rest)
        substring_start == s.start + start
    IN  IF SlicePanics(s.source, substring_start, substring_start + length)
        THEN [tt |-> "Identifier", abort |-> TRUE]
        ELSE IF /\ (s.current - s.start) = (start + length)
                /\ Slice(s.source, substring_start, substring_start + length) = rest
             THEN [tt |-> token_type, abort |-> FALSE]
             ELSE [tt |-> "Identifier", abort |-> FALSE]

\* Scanner::get_identifier_type
GetIdentifierType(s) ==
    LET c == s.source[s.start + 1]
        c2 == s.source[s.start + 2]
        ident == [tt |-> "Identifier", abort |-> FALSE]
    IN  CASE c = "a" -> CheckKeyword(s, 1, <<"n", "d">>, "And")
          [] c = "c" -> CheckKeyword(s, 1, <<"l", "a", "s", "s">>, "Class")
          [] c = "e" -> CheckKeyword(s, 1, <<"l", "s", "e">>, "Else")
          [] c = "f" ->
                IF (s.current - s.start) > 1
                THEN CASE c2 = "a" -> CheckKeyword(s, 2, <<"l", "s", "e">>, "False")
                       [] c2 = "o" -> CheckKeyword(s, 2, <<"r">>, "For")
                       [] c2 = "u" -> CheckKeyword(s, 2, <<"n">>, "Fun")
                       [] OTHER -> ident
                ELSE ident
          [] c = "i" -> CheckKeyword(s, 1, <<"f">>, "If")
          [] c = "n" -> CheckKeyword(s, 1, <<"i", "l">>, "Nil")
          [] c = "o" -> CheckKeyword(s, 1, <<"r">>, "Or")
          [] c = "p" -> CheckKeyword(s, 1, <<"r", "i", "n", "t">>, "Print")
          [] c = "r" -> CheckKeyword(s, 1, <<"e", "t", "u", "r", "n">>, "Return")
          [] c = "s" -> CheckKeyword(s, 1, <<"u", "p", "e", "r">>, "Super")
          [] c = "t" ->
                IF (s.current - s.start) > 1
                THEN CASE c2 = "h" -> CheckKeyword(s, 2, <<"i", "s">>, "This")
                       [] c2 = "r" -> CheckKeyword(s, 2, <<"u", "e">>, "True")
                       [] OTHER -> ident
                ELSE ident
          [] c = "v" -> CheckKeyword(s, 1, <<"a", "r">>, "Var")
          [] c = "w" -> CheckKeyword(s, 1, <<"h", "i", "l", "e">>, "While")
          [] OTHER -> ident

\* The loop of parse_identifier
RECURSIVE IdentifierRun(_)
IdentifierRun(s) ==
    IF IsAlphanumeric(ScannerPeek(s)) THEN IdentifierRun(ScannerAdvance(s)) ELSE s

\* Scanner::parse_identifier, after its loop: make_token(token_type)
IdentifierToken(s, ty) ==
    IF ty.abort THEN ScanPanic(s) ELSE MakeToken(s, ty.tt)

\* Scanner::parse_identifier
ParseIdentifier(s) ==
    IdentifierToken(IdentifierRun(s), GetIdentifierType(IdentifierRun(s)))

\* make_token of a one- or two-character operator, m being what
\* match_char('=') returned
TwoCharToken(m, with, without) ==
    MakeToken(m.s, IF m.matched THEN with ELSE without)

TwoChar(s, with, without) == TwoCharToken(MatchChar(s, "="), with, without)

\* Scanner::scan_token from `let c = self.advance()` on: s is the scanner
\* after the advance and c the character it returned
ScanChar(s, c) ==
        IF IsAlphabetic(c) THEN ParseIdentifier(s)
        ELSE IF IsAsciiDigit(c) THEN ParseNumber(s)
        ELSE CASE c = "(" -> MakeToken(s, "Leftparen")
               [] c = ")" -> MakeToken(s, "Rightparen")
               [] c = "{" -> MakeToken(s, "Leftbrace")
               [] c = "}" -> MakeToken(s, "Rightbrace")
               [] c = ";" -> MakeToken(s, "Semicolon")
               [] c = "," -> MakeToken(s, "Comma")
               [] c = "." -> MakeToken(s, "Dot")
               [] c = "-" -> MakeToken(s, "Minus")
               [] c = "+" -> MakeToken(s, "Plus")
               [] c = "/" -> MakeToken(s, "Slash")
               [] c = "*" -> MakeToken(s, "Star")
               [] c = "!" -> TwoChar(s, "Bangequal", "Bang")
               [] c = "=" -> TwoChar(s, "Equalequal", "Equal")
               [] c = "<" -> TwoChar(s, "Lessequal", "Less")
               [] c = ">" -> TwoChar(s, "Greaterequal", "Greater")
               [] c = Quote -> ParseString(s)
               [] c = NUL -> MakeToken(s, "Eof")
               [] OTHER -> Scanned(s, MakeErrorToken("Unexpected character.", s.line))

\* Scanner::scan_token from `self.start = self.current` on
ScanStart(s) ==
    IF IsAtEnd(s)
    THEN MakeToken(s, "Eof")
    ELSE ScanChar(ScannerAdvance(s), s.source[s.current + 1])

\* Scanner::scan_token after skip_whitespace_and_comments returned sk
ScanSkipped(sk) ==
    IF sk.abort
    THEN ScanPanic(sk.s)
    ELSE ScanStart([sk.s EXCEPT !.start = sk.s.current])

\* Scanner::scan_token
ScanToken(s) == ScanSkipped(SkipWhitespaceAndComments(s))

(***************************************************************************)
(* compiler.rs: Precedence, Parser, compile                                *)
(* The methods of Parser keep their names; each takes the parser record    *)
(* and returns it as the method leaves it.  A panic of the scanner sets    *)
(* parser.abort, after which the record no longer changes.                 *)
(***************************************************************************)
\* enum Precedence, #[repr(u8)]: the discriminant is the position
Precedences ==
    <<"None", "Assignment", "Or", "And", "Equality", "Comparison", "Term",
      "Factor", "Unary", "Call", "Primary">>

\* `Precedence::X.into()`
Prec(name) == (CHOOSE i \in 1..Len(Precedences) : Precedences[i] = name) - 1

\* Precedence::higher_precedence: try_from_primitive(value + 1).unwrap()
HigherPrecedencePanics(value) == value + 1 >= Len(Precedences)

HigherPrecedence(value) == value + 1

\* u8::MAX
U8Max == 255

\* The parse_rules table of Parser::init: prefix, infix, precedence
RulePrefix(tt) ==
    CASE tt = "Leftparen" -> "grouping"
      [] tt \in {"Minus", "Bang"} -> "unary"
      [] tt = "Identifier" -> "variable"
      [] tt = "String" -> "string"
      [] tt = "Number" -> "number"
      [] tt \in {"False", "Nil", "True"} -> "literal"
      [] OTHER -> "None"

RuleInfix(tt) ==
    IF tt \in {"Minus", "Plus", "Slash", "Star", "Bangequal", "Equalequal",
               "Greater", "Greaterequal", "Less", "Lessequal"}
    THEN "binary"
    ELSE "None"

\* The precedences as they would be if `*` and `/` bound no tighter than `+`
\* and `-`: a variant against which the grouping of operators is tried
RulePrecedenceFlat(tt) ==
    CASE tt \in {"Minus", "Plus", "Slash", "Star"} -> Prec("Term")
      [] tt \in {"Bangequal", "Equalequal"} -> Prec("Equality")
      [] tt \in {"Greater", "Greaterequal", "Less", "Lessequal"} -> Prec("Comparison")
      [] OTHER -> Prec("None")

RulePrecedence(tt) ==
    CASE tt \in {"Minus", "Plus"} -> Prec("Term")
      [] tt \in {"Slash", "Star"} -> Prec("Factor")
      [] tt \in {"Bangequal", "Equalequal"} -> Prec("Equality")
      [] tt \in {"Greater", "Greaterequal", "Less", "Lessequal"} -> Prec("Comparison")
      [] OTHER -> Prec("None")

\* Parser::init
ParserInit(src) ==
    [chunk |-> ChunkInit,
     current |-> Token("Eof", <<>>, 0),
     previous |-> Token("Eof", <<>>, 0),
     scanner |-> ScannerInit(src),
     had_error |-> FALSE,
     panic_mode |-> FALSE,
     diag |-> <<>>,       \* the diagnostics error_at wrote to standard error
     log |-> <<>>,        \* history: "report" for a diagnostic written,
                          \* "suppressed" for an error in panic mode,
                          \* "synchronize" for a call of synchronize
     abort |-> FALSE]

\* Parser::error_at: the line written to standard error
error_at(p, token, message) ==
    LET error_loc ==
            CASE token.token_type = "Eof" -> <<"at end">>
              [] token.token_type = "Error" -> <<>>
              [] OTHER -> <<"at '">> \o token.lexeme \o <<"'">>
    IN  [p EXCEPT !.diag = Append(@, [line |-> token.line, loc |-> error_loc,
                                       message |-> message]),
                  !.log = Append(@, "report")]

\* error_at_current as it would be without the test of panic_mode: a
\* variant against which the suppression of diagnostics is tried
error_at_current_cascading(p, message) ==
    IF p.abort THEN p
    ELSE error_at([p EXCEPT !.had_error = TRUE, !.panic_mode = TRUE],
                  p.current, message)

\* Parser::error_at_current
error_at_current(p, message) ==
    IF p.abort THEN p
    ELSE IF p.panic_mode
    THEN [p EXCEPT !.had_error = TRUE, !.log = Append(@, "suppressed")]
    ELSE error_at([p EXCEPT !.had_error = TRUE, !.panic_mode = TRUE],
                  p.current, message)

\* Parser::error
error(p, message) ==
    IF p.abort THEN p
    ELSE IF p.panic_mode
    THEN [p EXCEPT !.had_error = TRUE, !.log = Append(@, "suppressed")]
    ELSE error_at([p EXCEPT !.had_error = TRUE, !.panic_mode = TRUE],
                  p.previous, message)

\* A turn of the loop of advance as it would be if it took every token as
\* current, an Error token too: a variant against which advance is tried
AdvanceScannedOnce(p, r) ==
    IF r.abort THEN [p EXCEPT !.abort = TRUE]
    ELSE [p EXCEPT !.scanner = r.s, !.current = r.tok]

\* The loop of Parser::advance; AdvanceScanned is one turn of it, r being
\* what scan_token returned
RECURSIVE AdvanceLoop(_)
AdvanceScanned(p, r) ==
    IF r.abort THEN [p EXCEPT !.abort = TRUE]
    ELSE IF r.tok.token_type # "Error"
         THEN [p EXCEPT !.scanner = r.s, !.current = r.tok]
         ELSE AdvanceLoop(error_at_current(
                  [p EXCEPT !.scanner = r.s, !.current = r.tok], r.tok.lexeme[1]))

AdvanceLoop(p) == AdvanceScanned(p, ScanToken(p.scanner))

\* Parser::advance
advance(p) ==
    IF p.abort THEN p ELSE AdvanceLoop([p EXCEPT !.previous = p.current])

\* Parser::check
check(p, t) == p.current.token_type = t

\* Parser::consume
consume(p, tt, msg) ==
    IF p.current.token_type = tt THEN advance(p) ELSE error_at_current(p, msg)

\* Parser::match_token: the parser after the call; it returned check(p, t)
match_token(p, t) == IF ~check(p, t) THEN p ELSE advance(p)

\* Parser::emit_byte
emit_byte(p, byte) ==
    IF p.abort THEN p
    ELSE [p EXCEPT !.chunk = ChunkWrite(@, byte, p.previous.line)]

\* Parser::emit_bytes
RECURSIVE emit_bytes(_, _)
emit_bytes(p, bytes) ==
    IF bytes = <<>> THEN p ELSE emit_bytes(emit_byte(p, Head(bytes)), Tail(bytes))

\* make_constant as it would be with `index >= u8::MAX`: a variant against
\* which the limit of the constant pool is tried
make_constant_early(p, value) ==
    LET r == AddConstant(p.chunk, value)
        p1 == [p EXCEPT !.chunk = r.chunk]
    IN  IF p.abort THEN [p |-> p, index |-> 0]
        ELSE IF r.index >= U8Max
        THEN [p |-> error(p1, "Too many constants in one chunk"), index |-> 0]
        ELSE [p |-> p1, index |-> r.index]

\* Parser::make_constant: the parser after the call and the byte returned
make_constant(p, value) ==
    LET r == AddConstant(p.chunk, value)
        p1 == [p EXCEPT !.chunk = r.chunk]
    IN  IF p.abort THEN [p |-> p, index |-> 0]
        ELSE IF r.index > U8Max
        THEN [p |-> error(p1, "Too many constants in one chunk"), index |-> 0]
        ELSE [p |-> p1, index |-> r.index]

\* The emission of an opcode without its operand byte: a variant against
\* which the decoding of compiled chunks is tried
EmitWithoutIndex(m, op) == emit_byte(m.p, OpByte(op))

\* emit_bytes(&[op, index]) with the result m of make_constant
EmitWithIndex(m, op) == emit_bytes(m.p, <<OpByte(op), m.index>>)

\* Parser::emit_constant
emit_constant(p, value) == EmitWithIndex(make_constant(p, value), "Constant")

\* str::parse::<f32> of a lexeme of parse_number: digits, or digits "." digits
RECURSIVE DigitsValue(_)
DigitsValue(ds) ==
    IF ds = <<>> THEN 0
    ELSE 10 * DigitsValue(SubSeq(ds, 1, Len(ds) - 1))
         + (CHOOSE d \in 0..9 : NatDigits(d) = <<ds[Len(ds)]>>)

ParseF32(lexeme) ==
    LET dots == {i \in 1..Len(lexeme) : lexeme[i] = "."}
        shape == /\ lexeme # <<>>
                 /\ Cardinality(dots) <= 1
                 /\ \A i \in 1..Len(lexeme) : lexeme[i] \in AsciiDigits \cup {"."}
        dot == CHOOSE i \in dots : TRUE
        whole == SubSeq(lexeme, 1, dot - 1)
        frac == SubSeq(lexeme, dot + 1, Len(lexeme))
    IN  IF ~shape \/ lexeme = <<".">> THEN [ok |-> FALSE, v |-> Nil]
        ELSE IF dots = {} THEN [ok |-> TRUE, v |-> F32(DigitsValue(lexeme), 1)]
        ELSE [ok |-> TRUE, v |-> F32(DigitsValue(whole \o frac), 10 ^ Len(frac))]

\* Parser::number
number(p, can_assign) ==
    IF ParseF32(p.previous.lexeme).ok
    THEN emit_constant(p, ParseF32(p.previous.lexeme).v)
    ELSE p

\* Parser::string: the lexeme as scanned, its two quotes included
string(p, can_assign) == emit_constant(p, DynamicString(p.previous.lexeme))

\* Parser::literal (its last arm is unreachable!(): the rule table gives this
\* rule to False, True and Nil only)
literal(p, can_assign) ==
    CASE p.previous.token_type = "False" -> emit_byte(p, OpByte("False"))
      [] p.previous.token_type = "True" -> emit_byte(p, OpByte("True"))
      [] p.previous.token_type = "Nil" -> emit_byte(p, OpByte("Nil"))
      [] OTHER -> [p EXCEPT !.abort = TRUE]

\* Parser::identifier_constant
identifier_constant(p, t) == make_constant(p, DynamicString(t.lexeme))

\* The bytes of binary as they would be with the opcodes of `>=` and `<=`
\* exchanged: a variant against which the emitted comparisons are tried
BinaryBytesExchanged(op_type) ==
    CASE op_type = "Plus" -> <<OpByte("Add")>>
      [] op_type = "Minus" -> <<OpByte("Subtract")>>
      [] op_type = "Star" -> <<OpByte("Multiply")>>
      [] op_type = "Slash" -> <<OpByte("Divide")>>
      [] op_type = "Bangequal" -> <<OpByte("Equal"), OpByte("Not")>>
      [] op_type = "Equalequal" -> <<OpByte("Equal")>>
      [] op_type = "Greater" -> <<OpByte("Greater")>>
      [] op_type = "Greaterequal" -> <<OpByte("Greater"), OpByte("Not")>>
      [] op_type = "Less" -> <<OpByte("Less")>>
      [] op_type = "Lessequal" -> <<OpByte("Less"), OpByte("Not")>>

\* The bytes Parser::binary emits for an operator
BinaryBytes(op_type) ==
    CASE op_type = "Plus" -> <<OpByte("Add")>>
      [] op_type = "Minus" -> <<OpByte("Subtract")>>
      [] op_type = "Star" -> <<OpByte("Multiply")>>
      [] op_type = "Slash" -> <<OpByte("Divide")>>
      [] op_type = "Bangequal" -> <<OpByte("Equal"), OpByte("Not")>>
      [] op_type = "Equalequal" -> <<OpByte("Equal")>>
      [] op_type = "Greater" -> <<OpByte("Greater")>>
      [] op_type = "Greaterequal" -> <<OpByte("Less"), OpByte("Not")>>
      [] op_type = "Less" -> <<OpByte("Less")>>
      [] op_type = "Lessequal" -> <<OpByte("Greater"), OpByte("Not")>>

RECURSIVE parse_precedence(_, _)
RECURSIVE InfixLoop(_, _, _)

\* Parser::expression
expression(p) == parse_precedence(p, Prec("Assignment"))

\* Parser::grouping
grouping(p, can_assign) ==
    consume(expression(p), "Rightparen", "Expect ')' after expression.")

\* Parser::unary, after its parse_precedence (its last arm is unreachable!())
UnaryEmit(p, op_type) ==
    CASE op_type = "Minus" -> emit_byte(p, OpByte("Negate"))
      [] op_type = "Bang" -> emit_byte(p, OpByte("Not"))
      [] OTHER -> [p EXCEPT !.abort = TRUE]

\* Parser::unary
unary(p, can_assign) ==
    UnaryEmit(parse_precedence(p, Prec("Unary")), p.previous.token_type)

\* Parser::binary (its last arm is unreachable!())
binary(p, can_assign) ==
    IF \/ HigherPrecedencePanics(RulePrecedence(p.previous.token_type))
       \/ RuleInfix(p.previous.token_type) # "binary"
    THEN [p EXCEPT !.abort = TRUE]
    ELSE emit_bytes(
             parse_precedence(
                 p, HigherPrecedence(RulePrecedence(p.previous.token_type))),
             BinaryBytes(p.previous.token_type))

\* Parser::named_variable, m being what identifier_constant returned
NamedVariableEmit(m, can_assign) ==
    IF can_assign /\ check(m.p, "Equal")
    THEN emit_bytes(expression(advance(m.p)), <<OpByte("SetGlobal"), m.index>>)
    ELSE emit_bytes(m.p, <<OpByte("GetGlobal"), m.index>>)

\* Parser::named_variable
named_variable(p, name, can_assign) ==
    NamedVariableEmit(identifier_constant(p, name), can_assign)

\* Parser::variable
variable(p, can_assign) == named_variable(p, p.previous, can_assign)

\* The call of a prefix rule of the table
PrefixCall(rule, p, can_assign) ==
    CASE rule = "grouping" -> grouping(p, can_assign)
      [] rule = "unary" -> unary(p, can_assign)
      [] rule = "variable" -> variable(p, can_assign)
      [] rule = "string" -> string(p, can_assign)
      [] rule = "number" -> number(p, can_assign)
      [] rule = "literal" -> literal(p, can_assign)

\* One turn of the while loop of parse_precedence, after its advance
InfixCall(p, can_assign) ==
    IF p.abort THEN p
    ELSE IF RuleInfix(p.previous.token_type) = "binary"
         THEN binary(p, can_assign)
         ELSE p

\* The while loop of parse_precedence
InfixLoop(p, precedence, can_assign) ==
    IF p.abort \/ ~(precedence <= RulePrecedence(p.current.token_type)) THEN p
    ELSE InfixLoop(InfixCall(advance(p), can_assign), precedence, can_assign)

\* The end of parse_precedence: a pending `=`
AssignmentTarget(p, can_assign) ==
    IF can_assign /\ check(p, "Equal")
    THEN error(advance(p), "Invalid assignment target")
    ELSE p

\* Parser::parse_precedence, after its advance
PrefixAndInfix(p, precedence, can_assign) ==
    IF p.abort THEN p
    ELSE IF RulePrefix(p.previous.token_type) = "None"
         THEN error(p, "Expect expression.")
         ELSE AssignmentTarget(
                  InfixLoop(PrefixCall(RulePrefix(p.previous.token_type), p, can_assign),
                            precedence, can_assign),
                  can_assign)

\* parse_precedence as it would be without its advance: a variant against
\* which the progress of the declaration loop is tried
parse_precedence_unadvanced(p, precedence) ==
    PrefixAndInfix(p, precedence, precedence <= Prec("Assignment"))

\* Parser::parse_precedence
parse_precedence(p, precedence) ==
    PrefixAndInfix(advance(p), precedence, precedence <= Prec("Assignment"))

\* Parser::print_statement
print_statement(p) ==
    emit_byte(consume(expression(p), "Semicolon", "Expect ';' after value."),
              OpByte("Print"))

\* expression_statement as it would be if it emitted no Pop: a variant
\* against which the depth of the stack between statements is tried
expression_statement_unpopped(p) ==
    consume(expression(p), "Semicolon", "Expect ';' after expression.")

\* Parser::expression_statement
expression_statement(p) ==
    emit_byte(consume(expression(p), "Semicolon", "Expect ';' after expression."),
              OpByte("Pop"))

\* Parser::statement
statement(p) ==
    IF check(p, "Print")
    THEN print_statement(advance(p))
    ELSE expression_statement(p)

\* The loop of Parser::synchronize
RECURSIVE SynchronizeLoop(_)
SynchronizeLoop(p) ==
    IF p.abort \/ p.current.token_type = "Eof" THEN p
    ELSE IF p.previous.token_type = "Semicolon" THEN p
    ELSE IF p.current.token_type \in
              {"Class", "Fun", "Var", "For", "If", "While", "Print", "Return"}
         THEN p
         ELSE SynchronizeLoop(advance(p))

\* Parser::synchronize
synchronize(p) ==
    SynchronizeLoop([p EXCEPT !.panic_mode = FALSE, !.log = Append(@, "synchronize")])

\* identifier_constant(&self.previous.clone())
PreviousConstant(p) == identifier_constant(p, p.previous)

\* Parser::parse_variable: the parser after the call and the byte returned
parse_variable(p, msg) == PreviousConstant(consume(p, "Identifier", msg))

\* Parser::define_variable
define_variable(p, global) == emit_bytes(p, <<OpByte("DefineGlobal"), global>>)

\* Parser::variable_declaration after parse_variable: the initializer
Initializer(p) ==
    IF check(p, "Equal") THEN expression(advance(p)) ELSE emit_byte(p, OpByte("Nil"))

\* Parser::variable_declaration, global being what parse_variable returned
VariableDeclarationRest(p, global) ==
    define_variable(
        consume(Initializer(p), "Semicolon", "Expect ';' after variable declaration"),
        global)

VariableDeclarationOf(g) == VariableDeclarationRest(g.p, g.index)

\* Parser::variable_declaration
variable_declaration(p) ==
    VariableDeclarationOf(parse_variable(p, "Expect a variable name."))

\* Parser::declaration, after the declaration or statement
SynchronizeIfPanic(p) ==
    IF p.abort THEN p
    ELSE IF p.panic_mode THEN synchronize(p) ELSE p

\* Parser::declaration
declaration(p) ==
    SynchronizeIfPanic(
        IF check(p, "Var") THEN variable_declaration(advance(p)) ELSE statement(p))

\* Parser::end_compilation / emit_return
end_compilation(p) == emit_byte(p, OpByte("Return"))

(***************************************************************************)
(* The inputs of the model.                                                *)
(***************************************************************************)
\* Statements, each on a line of its own; a program of the model is a
\* sequence of at most MaxStmts of them.
StmtVarA ==
    <<"v", "a", "r", " ", "a", " ", "=", " ", "1", ";", "\n">>

StmtVarB ==
    <<"v", "a", "r", " ", "b", ";", "\n">>

StmtSetA ==
    <<"a", " ", "=", " ", "2", ";", "\n">>

StmtSetAB ==
    <<"a", " ", "=", " ", "b", " ", "=", " ", "3", ";", "\n">>

StmtPrintA ==
    <<"p", "r", "i", "n", "t", " ", "a", ";", "\n">>

StmtPrintB ==
    <<"p", "r", "i", "n", "t", " ", "b", " ", "+", " ", "1", ";", "\n">>

StmtNegA ==
    <<"p", "r", "i", "n", "t", " ", "-", "a", ";", "\n">>

StmtLess ==
    <<"p", "r", "i", "n", "t", " ", "a", " ", "<", " ", "n", "i", "l", ";",
      "\n">>

StmtTexts ==
    <<StmtVarA, StmtVarB, StmtSetA, StmtSetAB,
      StmtPrintA, StmtPrintB, StmtNegA, StmtLess>>

\* The end-to-end scenarios of the documentation and further sample programs
SrcPrecedence ==
    <<"p", "r", "i", "n", "t", " ", "1", " ", "+", " ", "2", " ", "*", " ",
      "3", ";">>

SrcString ==
    <<"v", "a", "r", " ", "a", " ", "=", " ", Quote, "h", "i", Quote, ";",
      " ", "p", "r", "i", "n", "t", " ", "a", ";">>

SrcUndefined ==
    <<"p", "r", "i", "n", "t", " ", "a", ";">>

SrcNotNil ==
    <<"p", "r", "i", "n", "t", " ", "!", "n", "i", "l", ";">>

SrcCompare ==
    <<"p", "r", "i", "n", "t", " ", "1", " ", "<", " ", "2", " ", "=", "=",
      " ", "t", "r", "u", "e", ";">>

SrcAssign ==
    <<"v", "a", "r", " ", "x", " ", "=", " ", "1", ";", " ", "x", " ", "=",
      " ", "2", ";", " ", "p", "r", "i", "n", "t", " ", "x", ";">>

SrcNegateString ==
    <<"-", Quote, "a", Quote, ";">>

SrcChain ==
    <<"v", "a", "r", " ", "a", ";", " ", "v", "a", "r", " ", "b", ";", " ",
      "a", " ", "=", " ", "b", " ", "=", " ", "3", ";", " ", "p", "r", "i",
      "n", "t", " ", "a", ";", " ", "p", "r", "i", "n", "t", " ", "b", ";",
      "\n">>

SrcOperators ==
    <<"p", "r", "i", "n", "t", " ", "(", "1", " ", "-", " ", "2", ")", " ",
      "/", " ", "4", " ", "*", " ", "2", " ", ">", " ", "-", "1", " ", "=",
      "=", " ", "f", "a", "l", "s", "e", ";">>

SrcRedefine ==
    <<"v", "a", "r", " ", "x", " ", "=", " ", "1", ";", " ", "v", "a", "r",
      " ", "x", " ", "=", " ", "2", ";", " ", "x", " ", "=", " ", "x", " ",
      "+", " ", "1", ";", " ", "p", "r", "i", "n", "t", " ", "x", ";">>

SrcUnderAdd ==
    <<"v", "a", "r", " ", "x", " ", "=", " ", "1", ";", " ", "p", "r", "i",
      "n", "t", " ", "x", " ", "+", " ", "y", ";">>

\* SrcString followed by a newline
SrcStringLine == SrcString \o <<"\n">>

SrcStringEqual ==
    <<"p", "r", "i", "n", "t", " ", Quote, "h", "i", Quote, " ", "=", "=",
      " ", Quote, "h", "i", Quote, ";">>

\* Assignments to something that is no variable
SrcAssignToSum == <<"a", " ", "+", " ", "b", " ", "=", " ", "c", ";">>

SrcAssignToNumber == <<"1", " ", "=", " ", "2", ";">>

SrcAssignToGroup == <<"(", "a", ")", " ", "=", " ", "1", ";">>

SrcAssignToNegation == <<"-", "a", " ", "=", " ", "1", ";">>

\* `x + y = z;`: as SrcAssignToSum, with names that begin no keyword
SrcAssignToSumXyz == <<"x", " ", "+", " ", "y", " ", "=", " ", "z", ";">>

\* The operands of `print !!x;` and the values they denote
NotOperands ==
    << [text |-> <<"t", "r", "u", "e">>, value |-> Boolean(TRUE)],
       [text |-> <<"f", "a", "l", "s", "e">>, value |-> Boolean(FALSE)],
       [text |-> <<"n", "i", "l">>, value |-> Nil],
       [text |-> <<"0">>, value |-> Number(0, 1)],
       [text |-> <<"1">>, value |-> Number(1, 1)],
       [text |-> <<"\"", "\"">>, value |-> DynamicString(<<"\"", "\"">>)],
       [text |-> <<"\"", "a", "\"">>, value |-> DynamicString(<<"\"", "a", "\"">>)] >>

SrcNotNot ==
    [i \in DOMAIN NotOperands |->
        <<"p", "r", "i", "n", "t", " ", "!", "!">> \o NotOperands[i].text \o <<";">>]

NotPrograms == {SrcNotNot[i] : i \in DOMAIN NotOperands}

\* `.1@;;`: an error at `.`, an unexpected character among the tokens
\* synchronize skips, then a statement `;` with an error of its own
SrcErrorInSkipped == <<".", "1", "@", ";", ";">>

\* `1 1; print 2;`: an error in the first statement, none in the second
SrcErrorThenPrint ==
    <<"1", " ", "1", ";", " ", "p", "r", "i", "n", "t", " ", "2", ";">>

\* `1 1; print 2; ;`: as SrcErrorThenPrint, then an error in a third statement
SrcErrorPrintError == SrcErrorThenPrint \o <<" ", ";">>

RecoveryPrograms == {SrcErrorInSkipped, SrcErrorThenPrint, SrcErrorPrintError}

\* Identifiers with an underscore: `_x;` and `my_var;`
SrcUnderscoreFirst == <<"_", "x", ";">>

SrcUnderscoreInside == <<"m", "y", "_", "v", "a", "r", ";">>

UnderscorePrograms == {SrcUnderscoreFirst, SrcUnderscoreInside}

\* Identifier runs that start with a keyword, and proper prefixes of
\* keywords as the last bytes of the source
SrcPrinter == <<"p", "r", "i", "n", "t", "e", "r", ";">>

SrcVariable == <<"v", "a", "r", "i", "a", "b", "l", "e", ";">>

SrcFort == <<"f", "o", "r", "t", ";">>

SrcPri == <<"p", "r", "i">>

SrcFals == <<"f", "a", "l", "s">>

SrcPriSemicolon == <<"p", "r", "i", ";", " ", " ">>

KeywordPrograms ==
    {SrcPrinter, SrcVariable, SrcFort, SrcPri, SrcFals, SrcPriSemicolon}

\* Statements that start with a token at which synchronize stops:
\* `return 1;` and `while;;`
SrcReturn == <<"r", "e", "t", "u", "r", "n", " ", "1", ";">>

SrcWhile == <<"w", "h", "i", "l", "e", ";", ";">>

BoundaryPrograms == {SrcReturn, SrcWhile}

InvalidTargetPrograms ==
    {SrcAssignToSum, SrcAssignToNumber, SrcAssignToGroup, SrcAssignToNegation,
     SrcAssignToSumXyz}

SamplePrograms ==
    {SrcPrecedence, SrcString, SrcUndefined, SrcNotNil,
     SrcCompare, SrcAssign, SrcNegateString, SrcChain,
     SrcOperators, SrcRedefine, SrcUnderAdd, SrcStringLine, SrcStringEqual}
        \cup InvalidTargetPrograms \cup NotPrograms \cup RecoveryPrograms
        \cup UnderscorePrograms \cup KeywordPrograms \cup BoundaryPrograms

\* The binary operators of the rule table: the text and the token type
BinaryOperators ==
    << [text |-> <<"+">>, tt |-> "Plus"],
       [text |-> <<"-">>, tt |-> "Minus"],
       [text |-> <<"*">>, tt |-> "Star"],
       [text |-> <<"/">>, tt |-> "Slash"],
       [text |-> <<"=", "=">>, tt |-> "Equalequal"],
       [text |-> <<"!", "=">>, tt |-> "Bangequal"],
       [text |-> <<"<">>, tt |-> "Less"],
       [text |-> <<"<", "=">>, tt |-> "Lessequal"],
       [text |-> <<">">>, tt |-> "Greater"],
       [text |-> <<">", "=">>, tt |-> "Greaterequal"] >>

\* `print 1 op 2;` for each binary operator
SrcOneOperator ==
    [o \in DOMAIN BinaryOperators |->
        <<"p", "r", "i", "n", "t", " ", "1", " ">> \o BinaryOperators[o].text
            \o <<" ", "2", ";">>]

\* `print !(1 op 2);` for each binary operator
SrcNegatedOperator ==
    [o \in DOMAIN BinaryOperators |->
        <<"p", "r", "i", "n", "t", " ", "!", "(", "1", " ">>
            \o BinaryOperators[o].text \o <<" ", "2", ")", ";">>]

\* `print 1 op1 2 op2 3;` for each pair of binary operators
SrcTwoOperators ==
    [o1 \in DOMAIN BinaryOperators, o2 \in DOMAIN BinaryOperators |->
        <<"p", "r", "i", "n", "t", " ", "1", " ">> \o BinaryOperators[o1].text
            \o <<" ", "2", " ">> \o BinaryOperators[o2].text \o <<" ", "3", ";">>]

OneOperatorPrograms ==
    {SrcOneOperator[o] : o \in DOMAIN BinaryOperators}
        \cup {SrcNegatedOperator[o] : o \in DOMAIN BinaryOperators}

OperatorPrograms ==
    {SrcTwoOperators[o1, o2] :
        o1 \in DOMAIN BinaryOperators, o2 \in DOMAIN BinaryOperators}
        \cup OneOperatorPrograms

\* The numeric literals of the large programs are written in groups of
\* GroupLen, each group in parentheses, so that no operand list is long
GroupLen == 16

\* `007+008+...`: m numeric literals of three digits joined by `+`, the
\* numbers from a on if distinct, else m times the number a
Literals(a, m, distinct) ==
    [i \in 1..(4 * m - 1) |->
        LET k == IF distinct THEN a + ((i - 1) \div 4) ELSE a
            d == <<"0", "1", "2", "3", "4", "5", "6", "7", "8", "9">>
        IN  CASE i % 4 = 1 -> d[(k \div 100) + 1]
              [] i % 4 = 2 -> d[((k \div 10) % 10) + 1]
              [] i % 4 = 3 -> d[(k % 10) + 1]
              [] OTHER -> "+"]

\* `(000+...+015)+(016+...)+...`: one expression of n numeric literals
RECURSIVE Groups(_, _, _)
Groups(a, n, distinct) ==
    IF n <= GroupLen
    THEN <<"(">> \o Literals(a, n, distinct) \o <<")">>
    ELSE <<"(">> \o Literals(a, GroupLen, distinct) \o <<")", "+">>
             \o Groups(IF distinct THEN a + GroupLen ELSE a, n - GroupLen, distinct)

\* Programs of one expression statement at the limit of the constant pool:
\* n distinct literals, and n uses of the literal 001
SrcLiterals(n) == Groups(0, n, TRUE) \o <<";">>

SrcRepeated(n) == Groups(1, n, FALSE) \o <<";">>

\* 256 distinct literals, 257 distinct literals, 257 uses of one literal
SrcPoolFull == SrcLiterals(U8Max + 1)

SrcPoolOver == SrcLiterals(U8Max + 2)

SrcPoolRepeated == SrcRepeated(U8Max + 2)

ConstantPrograms == {SrcPoolFull, SrcPoolOver, SrcPoolRepeated}

RECURSIVE Concat(_)
Concat(ss) == IF ss = <<>> THEN <<>> ELSE Head(ss) \o Concat(Tail(ss))

Programs ==
    {Concat([i \in DOMAIN f |-> StmtTexts[f[i]]]) :
        f \in UNION {[1..n -> 1..Len(StmtTexts)] : n \in 0..MaxStmts}}

\* The bytes of the short source texts, all of which are tried
Alphabet == {"a", "t", "1", ".", "/", "_", "@", " ", "\n", ";", Quote, NUL, "xC3", "xA9"}

\* A source is a String, hence valid UTF-8: 0xC3 leads exactly one
\* continuation byte
ValidUtf8(src) ==
    \A i \in 1..Len(src) :
        /\ src[i] = "xC3" => (i < Len(src) /\ src[i + 1] = "xA9")
        /\ src[i] = "xA9" => (i > 1 /\ src[i - 1] = "xC3")

ShortSources ==
    {src \in UNION {[1..n -> Alphabet] : n \in 0..MaxSrcLen} : ValidUtf8(src)}

\* The sources of a second call, besides the source of the first
SecondSources == {StmtVarA, StmtSetA, StmtPrintA}

\* The lines submitted at the prompt: prompt_reply returns them without
\* the newline
ReplLines ==
    {src \in ShortSources :
        Len(src) <= MaxLineLen /\ \A i \in 1..Len(src) : src[i] # "\n"}

Sources ==
    Programs \cup SamplePrograms \cup ConstantPrograms \cup OperatorPrograms
        \cup ShortSources

\* The arguments of the calls of Chunk::write
WriteBytes == {OpByte("Return"), OpByte("Constant"), U8Max}

WriteLines == {1, 2}

\* Hand-built chunks: any byte sequence over these bytes, with a pool of two
\* constants, so that an operand byte of 2 or more is out of range
VmBytes ==
    {OpByte("Return"), OpByte("Constant"), OpByte("Negate"), OpByte("Add"),
     OpByte("True"), OpByte("Nil"), OpByte("Not"), OpByte("Equal"),
     OpByte("Greater"), OpByte("Print"), OpByte("Pop"), OpByte("DefineGlobal"),
     OpByte("GetGlobal"), OpByte("SetGlobal"), U8Max}

VmConstants == <<DynamicString(<<"a">>), Number(1, 1)>>

\* Longer hand-built code: a global is defined, then comes a byte that is no
\* opcode, then instructions that would print and redefine the global
VmCodeUnknownByte ==
    <<OpByte("True"), OpByte("DefineGlobal"), 0, U8Max,
      OpByte("Nil"), OpByte("DefineGlobal"), 0, OpByte("Return")>>

VmSampleCodes == {VmCodeUnknownByte}

VmChunks ==
    {[code |-> c, constants |-> VmConstants, lines |-> [i \in 1..Len(c) |-> i]] :
        c \in UNION {[1..n -> VmBytes] : n \in 0..MaxCodeLen} \cup VmSampleCodes}

(***************************************************************************)
(* The state machine                                                       *)
(***************************************************************************)
NoInstruction == [op |-> "none", ip |-> 0, stack |-> <<>>, globals |-> EmptyMap]

\* No call of vm::interpret has returned in this process
NoCall ==
    [source |-> <<>>, result |-> "none", out |-> <<>>, err |-> <<>>,
     diag |-> <<>>, globals |-> EmptyMap]

\* Vm::init and the state before the first step
InitRest ==
    /\ parser = ParserInit(source)
    /\ ip = 0
    /\ stack = <<>>
    /\ globals = EmptyMap
    /\ result = "none"
    /\ out = <<>>
    /\ err = <<>>
    /\ last = NoInstruction
    /\ written = EmptyMap
    /\ earlier = NoCall
    /\ writes = <<>>

\* vm::interpret(source)
InitInterpret ==
    /\ entry = "interpret"
    /\ source \in Sources
    /\ pc = "start"
    /\ chunk = ChunkInit
    /\ InitRest

\* Vm::init(&chunk) on a hand-built chunk
InitVm ==
    /\ entry = "vm"
    /\ source = <<>>
    /\ pc = "run"
    /\ chunk \in VmChunks
    /\ InitRest

\* main.rs, repl: the loop is at the prompt
InitRepl ==
    /\ entry = "repl"
    /\ source = <<>>
    /\ pc = "prompt"
    /\ chunk = ChunkInit
    /\ InitRest

\* Chunk::init(), before any call on the chunk
InitChunk ==
    /\ entry = "chunk"
    /\ source = <<>>
    /\ pc = "calls"
    /\ chunk = ChunkInit
    /\ InitRest

Init == InitInterpret \/ InitVm \/ InitChunk

\* A step of compile that leaves the parser as p: a panic ends the run
CompileStep(p) ==
    /\ parser' = p
    /\ pc' = IF parser'.abort THEN "done" ELSE "compile"
    /\ result' = IF parser'.abort THEN "Abort" ELSE "none"
    /\ UNCHANGED <<entry, source, chunk, ip, stack, globals, out, err, last, written,
                   earlier, writes>>

\* compile: Parser::init(source); parser.advance()
CompileStart ==
    /\ pc = "start"
    /\ CompileStep(advance(parser))

\* compile: one turn of `while !parser.match_token(Eof) { parser.declaration() }`
CompileDeclaration ==
    /\ pc = "compile"
    /\ ~check(parser, "Eof")
    /\ CompileStep(declaration(parser))

\* compile: match_token(Eof) succeeds, end_compilation, the result; then
\* vm::interpret goes on with Vm::init(&chunk) if the result is Ok
CompileEnd ==
    /\ pc = "compile"
    /\ check(parser, "Eof")
    /\ parser' = end_compilation(advance(parser))
    /\ pc' = IF parser'.abort \/ parser'.had_error THEN "done" ELSE "run"
    /\ result' = IF parser'.abort THEN "Abort"
                 ELSE IF parser'.had_error THEN "CompileError" ELSE "none"
    /\ chunk' = IF parser'.abort \/ parser'.had_error THEN chunk ELSE parser'.chunk
    /\ UNCHANGED <<entry, source, ip, stack, globals, out, err, last, written,
                   earlier, writes>>

\* The call that has just returned, as `earlier` records it
ThisCall ==
    [source |-> source, result |-> result, out |-> out, err |-> err,
     diag |-> parser.diag, globals |-> globals]

\* A second call as it would be if the Vm kept the globals of the call
\* before: a variant against which the independence of calls is tried
InterpretAgainKeepsGlobals ==
    /\ entry = "interpret"
    /\ pc = "done"
    /\ result \in {"Ok", "CompileError", "RuntimeError"}
    /\ earlier = NoCall
    /\ source \in Programs
    /\ earlier' = ThisCall
    /\ source' \in {source} \cup SecondSources
    /\ parser' = ParserInit(source')
    /\ chunk' = ChunkInit
    /\ ip' = 0
    /\ stack' = <<>>
    /\ globals' = globals
    /\ pc' = "start"
    /\ result' = "none"
    /\ out' = <<>>
    /\ err' = <<>>
    /\ last' = NoInstruction
    /\ written' = EmptyMap
    /\ UNCHANGED <<entry, writes>>

\* vm::interpret(source') called after a call that returned: the chunk, the
\* parser and the Vm of that call were dropped, compile and Vm::init build
\* new ones.  `out` and `err` start again, to hold what this call writes.
InterpretAgain ==
    /\ entry = "interpret"
    /\ pc = "done"
    /\ result \in {"Ok", "CompileError", "RuntimeError"}
    /\ earlier = NoCall
    /\ source \in Programs
    /\ earlier' = ThisCall
    /\ source' \in {source} \cup SecondSources
    /\ parser' = ParserInit(source')
    /\ chunk' = ChunkInit
    /\ ip' = 0
    /\ stack' = <<>>
    /\ globals' = EmptyMap
    /\ pc' = "start"
    /\ result' = "none"
    /\ out' = <<>>
    /\ err' = <<>>
    /\ last' = NoInstruction
    /\ written' = EmptyMap
    /\ UNCHANGED <<entry, writes>>

\* The loop of compile: `while !parser.match_token(Eof) { declaration() }`
RECURSIVE CompileLoop(_)
CompileLoop(p) ==
    IF p.abort \/ check(p, "Eof") THEN p ELSE CompileLoop(declaration(p))

\* compiler::compile: the parser as the call leaves it
compile(src) ==
    end_compilation(advance(CompileLoop(advance(ParserInit(src)))))

\* main.rs, repl: one turn of the loop.  The reply of prompt_reply is the
\* line submitted without its newline; `line` is the reply with "\0" added,
\* the loop is left if that equals "\n", and else the line is compiled and
\* the result dropped.  A panic of compile ends the process.
repl ==
    /\ entry = "repl"
    /\ pc = "prompt"
    /\ \E reply \in ReplLines :
           /\ source' = reply \o <<NUL>>
           /\ parser' = IF source' = <<"\n">> THEN parser ELSE compile(source')
           /\ pc' = IF source' = <<"\n">> THEN "exited"
                    ELSE IF parser'.abort THEN "done" ELSE "prompt"
           /\ result' = IF parser'.abort THEN "Abort" ELSE "none"
    /\ UNCHANGED <<entry, chunk, ip, stack, globals, out, err, last, written,
                   earlier, writes>>

\* A call chunk.write(byte, line)
WriteCall ==
    /\ pc = "calls"
    /\ Len(chunk.code) + Len(chunk.constants) < MaxCalls
    /\ \E byte \in WriteBytes, line \in WriteLines :
           /\ chunk' = ChunkWrite(chunk, byte, line)
           /\ writes' = Append(writes, [byte |-> byte, line |-> line])
    /\ UNCHANGED <<entry, source, pc, parser, ip, stack, globals, result, out, err,
                   last, written, earlier>>

\* A call chunk.add_constant(value)
AddConstantCall ==
    /\ pc = "calls"
    /\ Len(chunk.code) + Len(chunk.constants) < MaxCalls
    /\ \E value \in {Nil, Number(1, 1)} : chunk' = AddConstant(chunk, value).chunk
    /\ UNCHANGED <<entry, source, pc, parser, ip, stack, globals, result, out, err,
                   last, written, earlier, writes>>

Next ==
    CompileStart \/ CompileDeclaration \/ CompileEnd \/ NextVm \/ InterpretAgain
        \/ WriteCall \/ AddConstantCall

Spec == Init /\ [][Next]_vars

\* The interactive mode
SpecRepl == InitRepl /\ [][repl]_vars

(***************************************************************************)
(* Properties                                                              *)
(*                                                                         *)
(* `last` is the state in which the most recent instruction was decoded,   *)
(* so a state predicate can relate the stack and the globals before an     *)
(* instruction to those after it.                                          *)
(***************************************************************************)
\* A run of vm::interpret(src) that has returned or aborted
Finished(src) == entry = "interpret" /\ source = src /\ pc = "done"

\* The top of the stack before the last instruction, and the value below it
LastTop == last.stack[Len(last.stack)]

LastSecond == last.stack[Len(last.stack) - 1]

\* The last instruction has a one-byte operand that names a string constant
LastHasName ==
    /\ last.ip + 1 < Len(chunk.code)
    /\ chunk.code[last.ip + 2] < Len(chunk.constants)
    /\ chunk.constants[chunk.code[last.ip + 2] + 1].t = "DynamicString"

LastName == chunk.constants[chunk.code[last.ip + 2] + 1].s

\* C1: for every source text, interpret(source) returns Ok, CompileError or
\* RuntimeError; no state of the scanner, the compiler or the VM is an abort.
InterpretNeverAborts ==
    entry = "interpret" => result \in {"none", "Ok", "CompileError", "RuntimeError"}

\* The one-byte source `a`: check_keyword slices source[1..3] of a text of
\* length 1 before it compares the lengths
InterpretAbortsOnA ==
    /\ entry = "interpret"
    /\ source = <<"a">>
    /\ pc = "done"
    /\ result = "Abort"

\* C2: Add, Subtract, Multiply or Divide with an operand that is not a Number
\* returns RuntimeError; no result is pushed and no further instruction runs.
ArithmeticRequiresNumbers ==
    (/\ last.op \in {"Add", "Subtract", "Multiply", "Divide"}
     /\ Len(last.stack) >= 2
     /\ (LastTop.t # "Number" \/ LastSecond.t # "Number"))
    => result = "RuntimeError"

\* Add of nil and 1 pushes nil and the run goes on
AddOfNilGoesOn ==
    /\ last.op = "Add"
    /\ Len(last.stack) = 2
    /\ LastSecond = Nil
    /\ LastTop = Number(1, 1)
    /\ result = "none"
    /\ stack = <<Nil>>

\* C3: Greater or Less with an operand that is not a Number returns
\* RuntimeError; no Boolean is pushed and no further instruction runs.
OrderingRequiresNumbers ==
    (/\ last.op \in {"Greater", "Less"}
     /\ Len(last.stack) >= 2
     /\ (LastTop.t # "Number" \/ LastSecond.t # "Number"))
    => result = "RuntimeError"

\* Less of 1 and nil pushes false and the run goes on
LessOfNilGoesOn ==
    /\ last.op = "Less"
    /\ Len(last.stack) = 2
    /\ LastSecond = Number(1, 1)
    /\ LastTop = Nil
    /\ result = "none"
    /\ stack = <<Boolean(FALSE)>>

\* C4: Negate with a value on top that is not a Number empties the stack and
\* returns RuntimeError, no further instruction being executed; with a Number
\* on top it replaces that value by its negation and goes on.
NegateRequiresNumber ==
    (last.op = "Negate" /\ last.stack # <<>>)
    => IF LastTop.t = "Number"
       THEN /\ result = "none"
            /\ pc = "run"
            /\ ip = last.ip + 1
            /\ stack = [last.stack EXCEPT
                           ![Len(last.stack)] = Number(-LastTop.num, LastTop.den)]
       ELSE /\ result = "RuntimeError"
            /\ pc = "done"
            /\ ip = last.ip + 1
            /\ stack = <<>>
            /\ globals = last.globals

\* Negate of a value that is not a Number, above another value
NegateOfNonNumber ==
    /\ last.op = "Negate"
    /\ Len(last.stack) >= 2
    /\ LastTop.t # "Number"
    /\ result = "RuntimeError"
    /\ stack = <<>>

\* C5: whenever Vm::interpret returns RuntimeError, whatever the cause, the
\* value stack is empty.
RuntimeErrorEmptiesStack == result = "RuntimeError" => stack = <<>>

\* GetGlobal of an unbound name returns RuntimeError with a value left on
\* the stack
GetGlobalErrorKeepsStack ==
    /\ last.op = "GetGlobal"
    /\ result = "RuntimeError"
    /\ stack # <<>>

\* The number of values an instruction pops or peeks
Needs(op) ==
    CASE op \in {"Pop", "Print", "Negate", "Not", "DefineGlobal", "SetGlobal"} -> 1
      [] op \in {"Equal", "Greater", "Less", "Add", "Subtract", "Multiply", "Divide"} -> 2
      [] OTHER -> 0

\* C6: an instruction that needs more values than the stack holds makes
\* Vm::interpret stop there and return RuntimeError; the run neither goes on
\* with the next instruction nor aborts. (DefineGlobal and SetGlobal are
\* taken with a well-formed name operand.)
UnderflowIsRuntimeError ==
    (/\ Len(last.stack) < Needs(last.op)
     /\ last.op \in {"DefineGlobal", "SetGlobal"} => LastHasName)
    => (result = "RuntimeError" /\ pc = "done")

\* Equal on an empty stack: the run goes on
EqualUnderflowGoesOn ==
    /\ last.op = "Equal"
    /\ last.stack = <<>>
    /\ result = "none"

\* C7: GetGlobal of a name without binding returns RuntimeError and pushes
\* nothing; the program `print a;` ends with a runtime error at the GetGlobal,
\* its Print not being executed.
GetGlobalUnboundIsError ==
    /\ (last.op = "GetGlobal" /\ LastHasName /\ LastName \notin DOMAIN last.globals)
       => (result = "RuntimeError" /\ stack = last.stack)
    /\ Finished(SrcUndefined)
       => (result = "RuntimeError" /\ last.op = "GetGlobal" /\ Len(out) = 1)

\* The program `print a;` aborts in the scanner
PrintUndefinedAborts == Finished(SrcUndefined) /\ result = "Abort"

\* C8: SetGlobal of a name without binding returns RuntimeError and leaves
\* globals as it was.
SetGlobalUnboundIsError ==
    (last.op = "SetGlobal" /\ LastHasName /\ LastName \notin DOMAIN last.globals)
    => (result = "RuntimeError" /\ globals = last.globals)

\* SetGlobal of an unbound name on an empty stack aborts in ValueArray::peek
SetGlobalUnboundAborts ==
    /\ last.op = "SetGlobal"
    /\ LastHasName
    /\ LastName \notin DOMAIN last.globals
    /\ last.stack = <<>>
    /\ result = "Abort"

\* C9: DefineGlobal binds the name to the value on top of the stack whether
\* or not the name is bound already, so globals holds for each name the value
\* of the most recent successful DefineGlobal or SetGlobal of it, and that is
\* the value a GetGlobal pushes.
GlobalsHoldLastWrite ==
    /\ DOMAIN globals = DOMAIN written
    /\ \A name \in DOMAIN written : globals[name] = written[name]
    /\ (last.op = "DefineGlobal" /\ LastHasName /\ last.stack # <<>>)
       => (/\ result = "none"
           /\ LastName \in DOMAIN globals
           /\ globals[LastName] = LastTop
           /\ \A name \in DOMAIN last.globals \ {LastName} :
                  name \in DOMAIN globals /\ globals[name] = last.globals[name])
    /\ (last.op = "GetGlobal" /\ LastHasName /\ LastName \in DOMAIN last.globals)
       => (result = "none" /\ stack = Append(last.stack, written[LastName]))

\* `x = x + 1` after `var x = 1; var x = 2;`: GetGlobal pushes 2
GetGlobalAfterRedefinition ==
    /\ source = SrcRedefine
    /\ last.op = "GetGlobal"
    /\ last.globals = [x \in {<<"x">>} |-> Number(2, 1)]
    /\ stack = <<Number(2, 1)>>

\* C10: SetGlobal of a bound name binds it to the value on top of the stack
\* and leaves the stack as it was; `var x = 1; x = 2; print x;` prints 2, and
\* `a = b = 3;` binds both a and b to 3.
SetGlobalIsAnExpression ==
    /\ (/\ last.op = "SetGlobal"
        /\ LastHasName
        /\ LastName \in DOMAIN last.globals
        /\ last.stack # <<>>)
       => (/\ result = "none"
           /\ stack = last.stack
           /\ globals = [last.globals EXCEPT ![LastName] = LastTop])
    /\ Finished(SrcAssign) => (result = "Ok" /\ out = << <<"2">> >>)
    /\ Finished(SrcChain)
       => (/\ result = "Ok"
           /\ globals = [x \in {<<"a">>, <<"b">>} |-> Number(3, 1)]
           /\ out = << <<"3">>, <<"3">> >>)

\* `a = b = 3;`: the second SetGlobal finds the 3 the first one left
ChainedAssignment ==
    /\ source = SrcChain
    /\ last.op = "SetGlobal"
    /\ last.globals = [x \in {<<"a">>, <<"b">>} |->
                          IF x = <<"a">> THEN Nil ELSE Number(3, 1)]
    /\ globals = [x \in {<<"a">>, <<"b">>} |-> Number(3, 1)]
    /\ stack = <<Number(3, 1)>>

\* The source text holds the keyword of a print statement
ContainsPrint(src) ==
    \E i \in 1..Len(src) :
        /\ i + 4 <= Len(src)
        /\ SubSeq(src, i, i + 4) = <<"p", "r", "i", "n", "t">>

\* C11: compiling and running a program without a print statement writes
\* nothing to standard output, whatever the outcome; diagnostics go to
\* standard error only.
NoPrintNoOutput ==
    (entry = "interpret" /\ ~ContainsPrint(source)) => out = <<>>

\* `a = 2;` with a unbound: the SetGlobal arm reports with println!
SetGlobalWritesToStdout ==
    /\ entry = "interpret"
    /\ source = StmtSetA
    /\ result = "RuntimeError"
    /\ out = << <<"Unknown variable.">> >>

\* C12: interpret(source) returns CompileError if and only if a scanner or
\* parser error was reported while compiling, and then the VM executes no
\* instruction: nothing is printed and no global is bound.
CompileErrorIffReported ==
    (entry = "interpret" /\ pc = "done")
    => /\ (result = "CompileError") <=> (parser.diag # <<>>)
       /\ result = "CompileError"
          => (last = NoInstruction /\ out = <<>> /\ globals = EmptyMap /\ ip = 0)

\* `@a`: the error for `@` is reported, then the scanner aborts on `a`
ReportedThenAborted ==
    /\ entry = "interpret"
    /\ source = <<"@", "a">>
    /\ pc = "done"
    /\ parser.diag # <<>>
    /\ result = "Abort"

\* The compiler has reported that the constant pool is full
TooManyReported ==
    \E i \in 1..Len(parser.diag) :
        parser.diag[i].message = "Too many constants in one chunk"

PoolHoldsDistinctOnly ==
    /\ entry = "interpret"
       => \A i, j \in 1..Len(parser.chunk.constants) :
              parser.chunk.constants[i] = parser.chunk.constants[j] => i = j
    /\ Finished(SrcPoolRepeated) => (result = "Ok" /\ ~TooManyReported)

\* 257 uses of the literal 001 take 257 slots and overflow the pool
RepeatedLiteralOverflows ==
    /\ Finished(SrcPoolRepeated)
    /\ result = "CompileError"
    /\ TooManyReported
    /\ \A i \in 1..Len(parser.chunk.constants) :
           parser.chunk.constants[i] = Number(1, 1)

\* C15: the string production stores the text of the literal without its
\* double quotes: `var a = "hi"; print a;` writes hi and returns Ok, and two
\* string literals with the same text are equal values.
StringStoredWithoutQuotes ==
    /\ entry = "interpret"
       => \A i \in 1..Len(parser.chunk.constants) :
              \A k \in 1..Len(parser.chunk.constants[i].s) :
                  parser.chunk.constants[i].s[k] # Quote
    /\ Finished(SrcString) => (result = "Ok" /\ out = << <<"h", "i">> >>)
    /\ Finished(SrcStringEqual)
       => (result = "Ok" /\ out = << <<"t", "r", "u", "e">> >>)

\* `var a = "hi"; print a;` and a newline: the value printed has the quotes
StringPrintedWithQuotes ==
    /\ Finished(SrcStringLine)
    /\ result = "Ok"
    /\ out = << <<Quote, "h", "i", Quote>> >>

\* The bytecode of `print (1 op1 2) op2 3;` and of `print 1 op1 (2 op2 3);`
LeftGrouped(o1, o2) ==
    <<OpByte("Constant"), 0, OpByte("Constant"), 1>>
        \o BinaryBytes(BinaryOperators[o1].tt)
        \o <<OpByte("Constant"), 2>>
        \o BinaryBytes(BinaryOperators[o2].tt)
        \o <<OpByte("Print"), OpByte("Return")>>

RightGrouped(o1, o2) ==
    <<OpByte("Constant"), 0, OpByte("Constant"), 1, OpByte("Constant"), 2>>
        \o BinaryBytes(BinaryOperators[o2].tt)
        \o BinaryBytes(BinaryOperators[o1].tt)
        \o <<OpByte("Print"), OpByte("Return")>>

\* C16: for a source `a op1 b op2 c` the bytecode emitted evaluates
\* (a op1 b) op2 c when precedence(op1) >= precedence(op2) and
\* a op1 (b op2 c) otherwise; `1 + 2 * 3` yields 7, `1 - 2 - 3` yields -4 and
\* `1 < 2 == true` yields true.
PrecedenceGroups ==
    /\ \A o1, o2 \in DOMAIN BinaryOperators :
           (/\ entry = "interpret"
            /\ source = SrcTwoOperators[o1, o2]
            /\ pc \in {"run", "done"})
           => /\ parser.diag = <<>>
              /\ chunk.constants = <<Number(1, 1), Number(2, 1), Number(3, 1)>>
              /\ chunk.code =
                    IF RulePrecedence(BinaryOperators[o1].tt)
                           >= RulePrecedence(BinaryOperators[o2].tt)
                    THEN LeftGrouped(o1, o2)
                    ELSE RightGrouped(o1, o2)
    /\ Finished(SrcPrecedence) => (result = "Ok" /\ out = << <<"7">> >>)
    /\ Finished(SrcTwoOperators[2, 2]) => (result = "Ok" /\ out = << <<"-", "4">> >>)
    /\ Finished(SrcCompare) => (result = "Ok" /\ out = << <<"t", "r", "u", "e">> >>)

\* `print 1 - 2 - 3;` has printed -4
SubtractionGroupsLeft ==
    /\ Finished(SrcTwoOperators[2, 2])
    /\ chunk.code = LeftGrouped(2, 2)
    /\ out = << <<"-", "4">> >>

\* The compiler has reported an invalid assignment target
InvalidTargetReported ==
    \E i \in 1..Len(parser.diag) :
        parser.diag[i].message = "Invalid assignment target"

\* C17: an `=` after an expression that is no bare variable at assignment
\* precedence (`a + b = c;`, `1 = 2;`, `(a) = 1;`, `-a = 1;`) is reported as
\* an invalid assignment target, compilation fails with CompileError and no
\* SetGlobal is emitted.
InvalidTargetIsCompileError ==
    \A src \in InvalidTargetPrograms :
        Finished(src)
        => /\ result = "CompileError"
           /\ InvalidTargetReported
           /\ \A i \in 1..Len(parser.chunk.code) :
                  parser.chunk.code[i] # OpByte("SetGlobal")

\* `a + b = c;` aborts in the scanner when the `=` is matched
AssignToSumAborts ==
    /\ Finished(SrcAssignToSum)
    /\ result = "Abort"
    /\ parser.diag = <<>>

\* A value is truthy unless it is false or Nil
Truthy(v) == ~(v = Boolean(FALSE) \/ v = Nil)

\* C18: Not replaces the value on top by true when that value is false or
\* Nil and by false for every other value (true, every Number, 0 included,
\* every String); `print !!x;` prints the Boolean that is true iff x is
\* truthy.
NotIsFalsiness ==
    /\ (last.op = "Not" /\ last.stack # <<>>)
       => /\ result = "none"
          /\ ip = last.ip + 1
          /\ stack = [last.stack EXCEPT
                         ![Len(last.stack)] = Boolean(~Truthy(LastTop))]
    /\ \A i \in DOMAIN NotOperands :
           (/\ entry = "interpret"
            /\ source = SrcNotNot[i]
            /\ pc \in {"run", "done"})
           => /\ chunk.constants \in {<<>>, <<NotOperands[i].value>>}
              /\ pc = "done" => /\ result = "Ok"
                                /\ out = <<Display(Boolean(Truthy(NotOperands[i].value)))>>

\* `print !!0;` has printed true, the second Not having found false on top
NotNotOfZero ==
    /\ entry = "interpret"
    /\ source = SrcNotNot[4]
    /\ last.op = "Not"
    /\ LastTop = Boolean(FALSE)
    /\ stack = <<Boolean(TRUE)>>

\* C19: two consecutive calls of interpret share no state: the second starts
\* with a new parser, chunk and Vm, a global bound by the first is unbound
\* in the second, and a second call on the same source returns and writes
\* what the first did.
CallsShareNoState ==
    earlier # NoCall
    => /\ pc = "start"
          => /\ parser = ParserInit(source)
             /\ chunk = ChunkInit
             /\ result = "none"
       /\ pc \in {"start", "compile"}
          => (ip = 0 /\ stack = <<>> /\ globals = EmptyMap)
       /\ DOMAIN globals \subseteq DOMAIN written
       /\ (pc = "done" /\ source = earlier.source) => ThisCall = earlier
       /\ (pc = "done" /\ source = StmtPrintA)
          => /\ result = "RuntimeError"
             /\ last.op = "GetGlobal"
             /\ globals = EmptyMap

\* `print a;` called after `var a = 1;` finds `a` unbound
SecondCallFindsUnbound ==
    /\ earlier.source = StmtVarA
    /\ earlier.result = "Ok"
    /\ DOMAIN earlier.globals # {}
    /\ Finished(StmtPrintA)
    /\ result = "RuntimeError"

\* C20: in interactive mode an empty line submitted at the prompt leads to
\* the loop exiting: the turn of the loop that reads it leaves the loop (a
\* panic of the process counts as leaving it).
EmptyLineExitsRepl ==
    [][(entry = "repl" /\ pc = "prompt" /\ source' = <<NUL>>)
           => pc' \in {"exited", "done"}]_vars

\* The loop is at the prompt again after an empty line
PromptAfterEmptyLine ==
    /\ entry = "repl"
    /\ source = <<NUL>>
    /\ parser = compile(<<NUL>>)
    /\ pc = "prompt"
    /\ result = "none"

\* The declared stack effect of an instruction
StackEffect(op) ==
    CASE op \in {"Constant", "Nil", "True", "False", "GetGlobal"} -> 1
      [] op \in {"Pop", "DefineGlobal", "Equal", "Greater", "Less", "Add",
                 "Subtract", "Multiply", "Divide", "Print"} -> -1
      [] op \in {"SetGlobal", "Not", "Negate", "Return"} -> 0

\* C21: whenever an instruction has executed to completion without error
\* (the loop goes on, or Return has returned Ok), the depth of the stack is
\* the depth before it plus the declared effect of its opcode.
StackEffectHolds ==
    ((\E i \in DOMAIN OpCodes : OpCodes[i] = last.op) /\ result \in {"none", "Ok"})
    => Len(stack) = Len(last.stack) + StackEffect(last.op)

\* Greater on an empty stack completes without error and leaves the depth 0
GreaterOnEmptyKeepsDepth ==
    /\ last.op = "Greater"
    /\ last.stack = <<>>
    /\ result = "none"
    /\ stack = <<>>

\* compile(source) has just returned Ok(chunk): `chunk` is what it returned
\* and the Vm has executed nothing yet
CompiledOk ==
    /\ entry = "interpret"
    /\ pc = "run"
    /\ last = NoInstruction

\* The opcodes followed by one operand byte
OperandOps == {"Constant", "DefineGlobal", "GetGlobal", "SetGlobal"}

\* The offset after the instruction at offset i of c.code: Len + 1 after a
\* Return that ends the code, and i itself where no instruction with a valid
\* operand begins, after the end, or at a Return that is not the last byte
AfterInstruction(c, i) ==
    IF i >= Len(c.code) THEN i
    ELSE IF TryFrom(c.code[i + 1]) = "Return"
         THEN IF i + 1 = Len(c.code) THEN i + 2 ELSE i
    ELSE IF TryFrom(c.code[i + 1]) \in OperandOps
         THEN IF i + 2 <= Len(c.code) /\ c.code[i + 2] < Len(c.constants)
              THEN i + 2 ELSE i
    ELSE IF TryFrom(c.code[i + 1]) = "Err" THEN i ELSE i + 1

\* AfterInstruction applied n times from offset i: the first half of the
\* applications, then the second from the offset m the first half reached
RECURSIVE AfterInstructions(_, _, _)
AfterInstructions(c, i, n) ==
    IF n = 0 THEN i
    ELSE IF n = 1 THEN AfterInstruction(c, i)
    ELSE CHOOSE j \in {AfterInstructions(c, m, n - (n \div 2)) :
                          m \in {AfterInstructions(c, i, n \div 2)}} : TRUE

\* The bytes of c.code decode from offset 0 as instructions with valid
\* operands, a Return being the last of them and the only one
Decodes(c) == AfterInstructions(c, 0, Len(c.code)) = Len(c.code) + 1

\* C22: every chunk returned by a successful compile decodes from offset 0
\* as a sequence of instructions (one operand byte after Constant,
\* DefineGlobal, GetGlobal and SetGlobal, none otherwise), every operand is a
\* valid index into constants, and the last instruction is a Return, the
\* only one of the chunk.
CompiledChunkDecodes == CompiledOk => Decodes(chunk)

\* The chunk of 256 literals: the operand 255 is a valid index
FullPoolChunkCompiled ==
    /\ CompiledOk
    /\ source = SrcPoolFull
    /\ Len(chunk.constants) = U8Max + 1
    /\ \E i \in 1..Len(chunk.code) - 1 :
           chunk.code[i] = OpByte("Constant") /\ chunk.code[i + 1] = U8Max

\* C23: after any sequence of Chunk::write and Chunk::add_constant calls,
\* and at every point of a compilation, lines is as long as code, and
\* lines[i] is the line passed with the byte code[i].
LinesInLockstep ==
    /\ Len(chunk.lines) = Len(chunk.code)
    /\ Len(parser.chunk.lines) = Len(parser.chunk.code)
    /\ entry = "chunk"
       => /\ Len(writes) = Len(chunk.code)
          /\ \A i \in 1..Len(writes) :
                 chunk.code[i] = writes[i].byte /\ chunk.lines[i] = writes[i].line
    /\ \A i \in 1..Len(parser.chunk.lines) :
           parser.chunk.lines[i] \in 1..parser.previous.line

\* write(1, 2), add_constant(nil), write(255, 1): two bytes, two lines
WritesAroundConstant ==
    /\ entry = "chunk"
    /\ writes = <<[byte |-> OpByte("Constant"), line |-> 2],
                  [byte |-> U8Max, line |-> 1]>>
    /\ chunk = [code |-> <<OpByte("Constant"), U8Max>>, constants |-> <<Nil>>,
                lines |-> <<2, 1>>]

\* The opcodes to be emitted for a binary operator, by its text
OpcodesFor(text) ==
    CASE text = <<"+">> -> <<"Add">>
      [] text = <<"-">> -> <<"Subtract">>
      [] text = <<"*">> -> <<"Multiply">>
      [] text = <<"/">> -> <<"Divide">>
      [] text = <<"=", "=">> -> <<"Equal">>
      [] text = <<">">> -> <<"Greater">>
      [] text = <<"<">> -> <<"Less">>
      [] text = <<"!", "=">> -> <<"Equal", "Not">>
      [] text = <<">", "=">> -> <<"Less", "Not">>
      [] text = <<"<", "=">> -> <<"Greater", "Not">>

\* The bytes of a sequence of opcodes without operands
BytesOf(ops) == [i \in DOMAIN ops |-> OpByte(ops[i])]

\* The chunk of `print 1 op 2;` read as a sequence of opcodes `ops` after
\* the two operands, followed by Print and Return
EmitsAfterOperands(ops) ==
    /\ chunk.constants = <<Number(1, 1), Number(2, 1)>>
    /\ chunk.code = <<OpByte("Constant"), 0, OpByte("Constant"), 1>>
                        \o BytesOf(ops \o <<"Print", "Return">>)

\* The direct operator whose negation a composed operator is, as positions
\* in BinaryOperators: `!=` and `==`, `<=` and `>`, `>=` and `<`
NegationOf == [o \in {6, 8, 10} |-> CASE o = 6 -> 5 [] o = 8 -> 9 [] o = 10 -> 7]

\* C24: binary emits, after both operands, Add for `+`, Subtract for `-`,
\* Multiply for `*`, Divide for `/`, Equal for `==`, Greater for `>`, Less
\* for `<`, Equal Not for `!=`, Less Not for `>=`, Greater Not for `<=`; so
\* `a != b`, `a >= b`, `a <= b` compile to the bytes of `!(a == b)`,
\* `!(a < b)`, `!(a > b)`.
BinaryEmitsOpcodes ==
    /\ \A o \in DOMAIN BinaryOperators :
           /\ (CompiledOk /\ source = SrcOneOperator[o])
              => EmitsAfterOperands(OpcodesFor(BinaryOperators[o].text))
           /\ (CompiledOk /\ source = SrcNegatedOperator[o])
              => EmitsAfterOperands(OpcodesFor(BinaryOperators[o].text) \o <<"Not">>)
    /\ \A o \in DOMAIN NegationOf :
           (CompiledOk /\ source \in {SrcOneOperator[o], SrcNegatedOperator[NegationOf[o]]})
           => EmitsAfterOperands(OpcodesFor(BinaryOperators[NegationOf[o]].text)
                                     \o <<"Not">>)
    /\ \A src \in OneOperatorPrograms :
           (entry = "interpret" /\ source = src /\ pc \in {"run", "done"})
           => (parser.diag = <<>> /\ result # "Abort")

\* `print 1 <= 2;` has compiled to the bytes of `print !(1 > 2);`
LessEqualCompiled ==
    /\ CompiledOk
    /\ source = SrcOneOperator[8]
    /\ chunk.code = <<OpByte("Constant"), 0, OpByte("Constant"), 1,
                      OpByte("Greater"), OpByte("Not"),
                      OpByte("Print"), OpByte("Return")>>

\* The positions of the parser's log that hold the event e
LogOf(e) == {i \in 1..Len(parser.log) : parser.log[i] = e}

\* C25: between a diagnostic written and the next call of synchronize no
\* further diagnostic is written; every error, suppressed or not, sets
\* had_error, which stays set for the rest of the compilation; panic_mode is
\* set by a diagnostic and cleared only by synchronize.
PanicModeSuppresses ==
    /\ \A i, j \in LogOf("report") :
           i < j => \E k \in LogOf("synchronize") : i < k /\ k < j
    /\ Len(parser.diag) = Cardinality(LogOf("report"))
    /\ parser.had_error <=> (LogOf("report") \cup LogOf("suppressed") # {})
    /\ parser.panic_mode
       <=> \E i \in LogOf("report") : \A k \in LogOf("synchronize") : k < i

\* `;;;`: a diagnostic, synchronize, a second diagnostic, then an error that
\* is suppressed
SecondStatementReported ==
    /\ entry = "interpret"
    /\ source = <<";", ";", ";">>
    /\ parser.log = <<"report", "synchronize", "report", "suppressed", "synchronize">>
    /\ Len(parser.diag) = 2
    /\ parser.had_error

\* The token types at which synchronize stops
BoundaryTypes ==
    {"Class", "Fun", "Var", "For", "If", "While", "Print", "Return", "Eof"}

\* C26: after a parse error in a statement, synchronize clears panic_mode
\* and skips to the next statement boundary (previous is `;`, or current is
\* class, fun, var, for, if, while, print, return or Eof), so that an error
\* in a later statement is written as a diagnostic of its own and an
\* error-free statement after the boundary is compiled as usual.
SynchronizeRecovers ==
    /\ (/\ entry = "interpret"
        /\ pc = "compile"
        /\ LogOf("synchronize") # {})
       => /\ ~parser.panic_mode
          /\ \/ parser.previous.token_type = "Semicolon"
             \/ parser.current.token_type \in BoundaryTypes
    /\ Finished(SrcErrorThenPrint)
       => /\ Len(parser.diag) = 1
          /\ parser.chunk.constants = <<Number(1, 1), Number(2, 1)>>
          /\ parser.chunk.code =
                 <<OpByte("Constant"), 0, OpByte("Pop"), OpByte("Constant"), 1,
                   OpByte("Print"), OpByte("Return")>>
    /\ Finished(SrcErrorPrintError) => Len(parser.diag) = 2
    /\ Finished(SrcErrorInSkipped)
       => \E i \in 1..Len(parser.diag) :
              /\ parser.diag[i].message = "Expect expression."
              /\ parser.diag[i].loc = <<"at '">> \o <<";">> \o <<"'">>

\* `.1@;;`: the error of the last statement is suppressed, panic_mode being
\* set again by the `@` that synchronize skipped
LaterErrorSuppressed ==
    /\ Finished(SrcErrorInSkipped)
    /\ result = "CompileError"
    /\ Len(parser.diag) = 2
    /\ parser.diag[2].message = "Unexpected character."
    /\ parser.log = <<"report", "suppressed", "synchronize", "report",
                      "suppressed", "suppressed", "synchronize">>

\* The parser q is as a call of advance that returned leaves the parser p,
\* the first token the call pulled being tok
AdvancedFrom(p, q, tok) ==
    /\ q.previous = p.current
    /\ q.current.token_type # "Error"
    /\ tok.token_type = "Error" => q.had_error
    /\ (tok.token_type # "Error" /\ ~p.had_error) => ~q.had_error
    /\ Len(q.diag) - Len(p.diag) = IF tok.token_type = "Error" /\ ~p.panic_mode
                                    THEN 1 ELSE 0
    /\ q.chunk = p.chunk

\* C27: after every call of advance that returns, previous is the token that
\* was current before the call and current is no Error token; every Error
\* token pulled sets had_error.  Stated of a call of advance in each state
\* the compiler is in between declarations, and of the tokens the parser
\* holds in every state.
AdvanceSkipsErrors ==
    /\ ~parser.abort
       => /\ parser.current.token_type # "Error"
          /\ parser.previous.token_type # "Error"
    /\ (entry = "interpret" /\ pc \in {"start", "compile"} /\ ~advance(parser).abort)
       => AdvancedFrom(parser, advance(parser), ScanToken(parser.scanner).tok)

\* advance on `@;`: the Error token of `@` is reported and `;` is current
AdvancePastError ==
    /\ entry = "interpret"
    /\ source = <<"@", ";">>
    /\ pc = "compile"
    /\ parser.previous = Token("Eof", <<>>, 0)
    /\ parser.current.token_type = "Semicolon"
    /\ parser.had_error
    /\ Len(parser.diag) = 1

\* The characters an identifier is made of where `_` counts as one
IsIdentifierChar(c) == IsAlphanumeric(c) \/ c = "_"

\* The length of the longest run of such characters at the start of src
RECURSIVE RunLength(_, _)
RunLength(src, n) ==
    IF n < Len(src) /\ IsIdentifierChar(src[n + 1]) THEN RunLength(src, n + 1) ELSE n

\* The state after compile pulled the first token of the source
FirstTokenPulled ==
    /\ entry = "interpret"
    /\ pc = "compile"
    /\ parser.previous = Token("Eof", <<>>, 0)
    /\ ~parser.abort

\* C28: a lexeme that starts with `_` or holds `_` after its first character
\* is scanned as one Identifier token, not as an Error token and not as
\* several tokens.  Stated of the first token of every source that starts
\* with such a lexeme: it is the Identifier of the whole run and nothing is
\* reported.
UnderscoreInIdentifier ==
    (/\ FirstTokenPulled
     /\ Len(source) > 0
     /\ IsAlphabetic(source[1]) \/ source[1] = "_"
     /\ \E i \in 1..RunLength(source, 0) : source[i] = "_")
    => /\ parser.current =
              Token("Identifier", SubSeq(source, 1, RunLength(source, 0)), 1)
       /\ parser.diag = <<>>

\* `_x;`: the `_` is reported as an unexpected character and `x` is the
\* first token the parser holds
UnderscoreIsError ==
    /\ FirstTokenPulled
    /\ source = SrcUnderscoreFirst
    /\ parser.current = Token("Identifier", <<"x">>, 1)
    /\ Len(parser.diag) = 1
    /\ parser.diag[1].message = "Unexpected character."

\* `my_var;`: the first token is the Identifier `my` alone
UnderscoreSplits ==
    /\ FirstTokenPulled
    /\ source = SrcUnderscoreInside
    /\ parser.current = Token("Identifier", <<"m", "y">>, 1)
    /\ parser.diag = <<>>

\* The 16 keywords of get_identifier_type and their token types
Keywords ==
    << [text |-> <<"a", "n", "d">>, tt |-> "And"],
       [text |-> <<"c", "l", "a", "s", "s">>, tt |-> "Class"],
       [text |-> <<"e", "l", "s", "e">>, tt |-> "Else"],
       [text |-> <<"f", "a", "l", "s", "e">>, tt |-> "False"],
       [text |-> <<"f", "o", "r">>, tt |-> "For"],
       [text |-> <<"f", "u", "n">>, tt |-> "Fun"],
       [text |-> <<"i", "f">>, tt |-> "If"],
       [text |-> <<"n", "i", "l">>, tt |-> "Nil"],
       [text |-> <<"o", "r">>, tt |-> "Or"],
       [text |-> <<"p", "r", "i", "n", "t">>, tt |-> "Print"],
       [text |-> <<"r", "e", "t", "u", "r", "n">>, tt |-> "Return"],
       [text |-> <<"s", "u", "p", "e", "r">>, tt |-> "Super"],
       [text |-> <<"t", "h", "i", "s">>, tt |-> "This"],
       [text |-> <<"t", "r", "u", "e">>, tt |-> "True"],
       [text |-> <<"v", "a", "r">>, tt |-> "Var"],
       [text |-> <<"w", "h", "i", "l", "e">>, tt |-> "While"] >>

\* The token type of an identifier run: a keyword's if the whole run is the
\* keyword, Identifier otherwise
TypeOfRun(run) ==
    IF \E k \in DOMAIN Keywords : Keywords[k].text = run
    THEN Keywords[CHOOSE k \in DOMAIN Keywords : Keywords[k].text = run].tt
    ELSE "Identifier"

\* The length of the run of ASCII letters and digits at the start of src
RECURSIVE AsciiRunLength(_, _)
AsciiRunLength(src, n) ==
    IF n < Len(src) /\ src[n + 1] \in AsciiLetters \cup AsciiDigits
    THEN AsciiRunLength(src, n + 1)
    ELSE n

\* The source starts with an identifier run of ASCII letters and digits, and
\* compile called advance for its first token
FirstRunPulled ==
    /\ entry = "interpret"
    /\ pc # "start"
    /\ parser.previous = Token("Eof", <<>>, 0)
    /\ Len(source) > 0
    /\ source[1] \in AsciiLetters
    /\ AsciiRunLength(source, 0) = Len(source)
           \/ ~IsAlphanumeric(source[AsciiRunLength(source, 0) + 1])

\* The first token is the one of the whole run
FirstRunToken ==
    parser.current =
        Token(TypeOfRun(SubSeq(source, 1, AsciiRunLength(source, 0))),
              SubSeq(source, 1, AsciiRunLength(source, 0)), 1)

\* C29: an identifier run is a keyword token only when the whole run is one
\* of the 16 keywords; a run that starts with a keyword, or is a proper
\* prefix of one, is an Identifier token, wherever in the source it stands,
\* the very end included.  Stated of the first token of every source that
\* starts with a run: scan_token returns, with the token of the whole run.
KeywordIsWholeRun ==
    FirstRunPulled => (~parser.abort /\ FirstRunToken)

\* `pri` as the whole source: check_keyword slices source[1..5] of a text of
\* 3 bytes and the scanner panics
PrefixAtEndAborts ==
    /\ FirstRunPulled
    /\ source = SrcPri
    /\ parser.abort
    /\ pc = "done"
    /\ result = "Abort"

\* `printer;`: the run starts with a keyword and is an Identifier
PrinterIsIdentifier ==
    /\ FirstRunPulled
    /\ source = SrcPrinter
    /\ pc = "compile"
    /\ parser.current.token_type = "Identifier"
    /\ parser.current.lexeme = <<"p", "r", "i", "n", "t", "e", "r">>

\* The 1-based line of the byte after the first k bytes of src
LineAt(src, k) == 1 + Cardinality({i \in 1..k : src[i] = "\n"})

\* The parser holds as current the token scan_token returned last, and the
\* scanner's start is the offset of that token's first character
HoldsScannedToken ==
    /\ entry = "interpret"
    /\ pc # "start"
    /\ ~parser.abort
    /\ parser.current.token_type # "Error"

\* C30: every token scan_token returns that is no Error token carries the
\* line on which its first character lies; a string literal over several
\* lines carries the line of its opening quote.
TokenLineIsFirstLine ==
    HoldsScannedToken
    => parser.current.line = LineAt(parser.scanner.source, parser.scanner.start)

\* A string literal that opens on line 1 and closes on line 2 is a String
\* token of line 2
StringCarriesLastLine ==
    /\ HoldsScannedToken
    /\ source = <<Quote, "\n", Quote>>
    /\ parser.current.token_type = "String"
    /\ parser.scanner.start = 0
    /\ parser.current.line = 2

\* C31: scan_token returns an Eof token exactly when, whitespace and
\* comments skipped, the cursor is at the end of the source; a byte that
\* starts no token, a NUL byte inside the source included, is an Error token
\* and the tokens after it reach the parser.  Stated of the token the parser
\* holds as current: it is Eof exactly when it starts at the end of the
\* source.
EofOnlyAtEnd ==
    HoldsScannedToken
    => (parser.current.token_type = "Eof"
           <=> parser.scanner.start = Len(parser.scanner.source))

\* The source NUL `;`: the NUL byte is an Eof token of one byte and nothing
\* is reported
NulIsEof ==
    /\ HoldsScannedToken
    /\ source = <<NUL, ";">>
    /\ pc = "compile"
    /\ parser.current = Token("Eof", <<NUL>>, 1)
    /\ parser.scanner.start = 0
    /\ parser.scanner.current = 1
    /\ parser.diag = <<>>

\* The source NUL `;` `;`: compile ends at the NUL byte, the statements after
\* it are not parsed and the result is Ok
NulEndsCompile ==
    /\ entry = "interpret"
    /\ source = <<NUL, ";", ";">>
    /\ pc = "done"
    /\ result = "Ok"
    /\ parser.diag = <<>>
    /\ chunk.code = <<OpByte("Return")>>

\* C32: when the byte at ip is no opcode, Vm::interpret returns RuntimeError
\* at once: the byte is the last one read, no instruction after it is
\* executed, and globals is as it was.
UnknownByteEndsRun ==
    last.op = "Err"
    => /\ pc = "done"
       /\ result = "RuntimeError"
       /\ ip = last.ip + 1
       /\ globals = last.globals

\* The run of VmCodeUnknownByte has ended at its fourth byte, the global
\* still bound to true
UnknownByteAfterDefine ==
    /\ entry = "vm"
    /\ chunk.code = VmCodeUnknownByte
    /\ last.op = "Err"
    /\ last.ip = 3
    /\ result = "RuntimeError"
    /\ globals = HashMapInsert(EmptyMap, <<"a">>, Boolean(TRUE))

\* The instructions that end a statement: Print of a print statement, Pop of
\* an expression statement, DefineGlobal of a variable declaration
StatementEnds == {"Print", "Pop", "DefineGlobal"}

\* C33: in the run of a chunk that compile produced, the stack is empty when
\* the run starts, after every instruction that ends a statement and when
\* Return executes, and every instruction finds on the stack the values it
\* needs.
CompiledStackDiscipline ==
    entry = "interpret"
    => /\ CompiledOk => stack = <<>>
       /\ last.op # "none" => Len(last.stack) >= Needs(last.op)
       /\ (last.op \in StatementEnds /\ result = "none") => stack = <<>>
       /\ last.op = "Return" => (last.stack = <<>> /\ stack = <<>>)
       /\ last.op # "End"

\* `var a; var b; a = b = 3; print a; print b;` has run to its Return: five
\* statements, the stack empty
ChainRunToReturn ==
    /\ Finished(SrcChain)
    /\ result = "Ok"
    /\ last.op = "Return"
    /\ last.stack = <<>>
    /\ Len(out) = 2

\* What is left to compile: twice the bytes the scanner has not read, and one
\* more while the current token is not Eof
Measure(p) ==
    2 * (Len(p.scanner.source) - p.scanner.current)
        + (IF p.current.token_type = "Eof" THEN 0 ELSE 1)

\* A call of advance with a current token that is not Eof, which is what a
\* turn of synchronize's loop is, leaves less to compile
AdvanceConsumes(p) ==
    (~p.abort /\ ~check(p, "Eof") /\ ~advance(p).abort)
    => /\ Measure(advance(p)) < Measure(p)
       /\ advance(p).scanner.current >= p.scanner.current

\* C34: compile terminates on every source.  The scanner's cursor never
\* moves backwards; a turn of the declaration loop, and a turn of
\* synchronize's loop, leaves less to compile than there was, and what is
\* left is never less than nothing; a turn in which the scanner panics ends
\* the compilation.
CompileProgresses ==
    [][(entry = "interpret" /\ pc \in {"start", "compile"})
       => /\ pc' \in {"compile", "run", "done"}
          /\ parser'.scanner.current >= parser.scanner.current
          /\ parser'.scanner.current <= Len(source)
          /\ Measure(parser') >= 0
          /\ AdvanceConsumes(parser)
          /\ (pc = "compile" /\ pc' = "compile") => Measure(parser') < Measure(parser)
          /\ parser'.abort => pc' = "done"]_vars

\* `.1@;;` after its first declaration: synchronize has skipped `1`, the
\* Error token of `@` and `;`, and the cursor is at the end
SkippedToBoundary ==
    /\ entry = "interpret"
    /\ source = SrcErrorInSkipped
    /\ pc = "compile"
    /\ Cardinality(LogOf("synchronize")) = 1
    /\ parser.current.token_type = "Semicolon"
    /\ parser.scanner.current = Len(source)
    /\ Measure(parser) = 1

\* C35: Vm::interpret terminates on every chunk.  Every turn of the loop
\* moves ip forward and never past the end of the code, so that at most
\* code.length instructions execute; Return ends the run with Ok, and with
\* it the stack, the globals and the output are as Return found them; a
\* turn that finds ip at the end of the code ends the run with Ok; and
\* nothing is executed after the run has ended.
VmTerminates ==
    [][/\ pc = "run"
          => /\ ip' <= Len(chunk.code)
             /\ ip < Len(chunk.code) => ip' > ip
             /\ ip >= Len(chunk.code) => (pc' = "done" /\ result' = "Ok")
             /\ Exec("Return")
                => /\ pc' = "done"
                   /\ result' = "Ok"
                   /\ stack' = stack
                   /\ globals' = globals
                   /\ out' = out
       /\ (pc = "done" /\ entry = "vm") => FALSE
       /\ (pc = "done" /\ entry = "interpret") => (pc' = "start" /\ ip' = 0)]_vars

\* The chunk [True, Return, Print]: the run has ended at Return with Ok, the
\* Print after it not executed
ReturnBeforePrint ==
    /\ entry = "vm"
    /\ chunk.code = <<OpByte("True"), OpByte("Return"), OpByte("Print")>>
    /\ pc = "done"
    /\ result = "Ok"
    /\ last.op = "Return"
    /\ ip = 2
    /\ stack = <<Boolean(TRUE)>>
    /\ out = <<>>

\* The chunk [True, Nil]: the run has ended after the last byte with Ok
RunPastLastByte ==
    /\ entry = "vm"
    /\ chunk.code = <<OpByte("True"), OpByte("Nil")>>
    /\ pc = "done"
    /\ result = "Ok"
    /\ last.op = "End"
    /\ ip = 2

====
